---------------------------- MODULE Spec2Model ----------------------------
(***************************************************************************)
(* Schema alignment, column-inference scheduling and entity normalisation  *)
(* of bio-data-harmoniser (core/schemas/base.py, core/normalisation/       *)
(* entity.py, core/logging.py), as state machines.                         *)
(***************************************************************************)
EXTENDS Integers, Sequences, FiniteSets, TLC

VARIABLES
    schema,               \* target schema: sequence of column records
    source_columns,       \* column names of the dataframe given to the call
    dataframe,            \* working dataframe: sequence of [name, values]
    context_available,    \* bool(context)
    node_is_set,          \* LoggingSession.node is not None
    decisions,            \* node.data.decisions
    column_name_mapping,  \* dict alias/source name -> schema name, as a sequence of pairs
    missing_columns,      \* list of names of the schema columns not found
    llm_response,         \* what llm.predict answered for each schema column
    col_idx,              \* position of the running loop
    set_iteration,        \* iteration order of the set missing_column_names
    sorted_columns,       \* result of _sort_columns_based_on_dependencies
    pc,                   \* position inside align_dataframe_to_schema
    outcome,              \* "running", "returned" or the error raised
    series,               \* the column given to EntityNormaliser.normalise
    candidates,           \* retrieved candidates of each distinct mention, best first
    task,                 \* state of the _classify_mention task of each mention
    attempt_number,       \* attempts tenacity has started for each mention
    llm_calls,            \* llm.ainvoke calls issued for each mention
    failures,             \* llm.ainvoke calls of each mention that raised
    last_answer,          \* the answer of the last llm.ainvoke call that returned
    result,               \* the entity _classify_mention returned for each mention
    chunk_idx,            \* the chunk _classify is working on
    all_results,          \* rows of the chunks classified so far
    output,               \* the values of the series normalise returned
    norm_pc,              \* position inside normalise
    index,                \* the index labels of the series given to normalise
    algorithm,            \* EntityNormaliser.algorithm
    completion_order,     \* the mentions in the order their tasks completed
    xref_mapping,         \* the table store.load_xref_mapping returned
    prefix,               \* what _get_curie_prefix_if_needed returned
    output_index,         \* the index labels of the series normalise returned
    session,              \* LoggingSession._session
    previous_session,     \* previous_session of the running logging_session
    output_dir,           \* output_dir given to logging_session
    status,               \* node.data.status
    status_log,           \* every status log_status has set, in order
    persisted,            \* the files under output_dir: path and record written
    node_id,              \* session.node.id of the running logging_session
    filename,             \* the file given to the process task
    output_written,       \* result.to_parquet has written the output of the file
    nodes,                \* the LoggedNode of every logging_session entered so far
    frames,               \* the logging_session calls that are active, innermost last
    calls,                \* number of logging calls made so far
    raised,               \* the exception leaving the with block
    sess_pc,              \* position inside logging_session
    body_pc               \* position inside the body of the with block

alignVars == <<schema, source_columns, dataframe, context_available,
               column_name_mapping, missing_columns, llm_response,
               col_idx, set_iteration, sorted_columns, pc, outcome>>

logVars == <<node_is_set, decisions>>

normVars == <<series, candidates, task, attempt_number, llm_calls, failures,
              last_answer, result, chunk_idx, all_results, output, norm_pc,
              index, algorithm, completion_order, xref_mapping, prefix, output_index>>

sessVars == <<session, previous_session, output_dir, status, status_log, persisted,
              raised, sess_pc, body_pc, node_id, filename, output_written,
              nodes, frames, calls>>

vars == <<alignVars, logVars, normVars, sessVars>>

-----------------------------------------------------------------------------
(* Generic helpers                                                         *)

Range(s) == {s[i] : i \in 1..Len(s)}

Perms(S) == {p \in [1..Cardinality(S) -> S] : \A x \in S : \E i \in DOMAIN p : p[i] = x}

\* pandas NA / Python None: a cell value no arithmetic on the cells produces
NA == -999

-----------------------------------------------------------------------------
(* utils.to_snake_case                                                     *)

LowerChars == {"a","b","c","d","e","f","g","h","i","j","k","l","m",
               "n","o","p","q","r","s","t","u","v","w","x","y","z"}
UpperChars == {"A","B","C","D","E","F","G","H","I","J","K","L","M",
               "N","O","P","Q","R","S","T","U","V","W","X","Y","Z"}
DigitChars == {"0","1","2","3","4","5","6","7","8","9"}
LetterChars == LowerChars \cup UpperChars
WordChars == LetterChars \cup DigitChars \cup {"_"}

UpperSeq == "ABCDEFGHIJKLMNOPQRSTUVWXYZ"
LowerSeq == "abcdefghijklmnopqrstuvwxyz"

CharAt(s, i) == SubSeq(s, i, i)

\* str.lower() of one character
LowerChar(c) ==
    IF c \in UpperChars
    THEN CharAt(LowerSeq, CHOOSE i \in 1..26 : CharAt(UpperSeq, i) = c)
    ELSE c

\* re.sub(r"\W+", "_", s): every run of non-word characters becomes one "_"
RECURSIVE SubNonWord(_, _)
SubNonWord(s, i) ==
    IF i > Len(s) THEN ""
    ELSE IF CharAt(s, i) \in WordChars THEN CharAt(s, i) \o SubNonWord(s, i + 1)
    ELSE IF i > 1 /\ CharAt(s, i - 1) \notin WordChars THEN SubNonWord(s, i + 1)
    ELSE "_" \o SubNonWord(s, i + 1)

\* re.sub of a two-character pattern (first in L, second in R) by \1_\2;
\* matches do not overlap: after a match the scan resumes behind it
RECURSIVE SubBoundary(_, _, _, _)
SubBoundary(s, i, L, R) ==
    IF i > Len(s) THEN ""
    ELSE IF i < Len(s) /\ CharAt(s, i) \in L /\ CharAt(s, i + 1) \in R
    THEN CharAt(s, i) \o "_" \o CharAt(s, i + 1) \o SubBoundary(s, i + 2, L, R)
    ELSE CharAt(s, i) \o SubBoundary(s, i + 1, L, R)

RECURSIVE LowerStr(_, _)
LowerStr(s, i) ==
    IF i > Len(s) THEN "" ELSE LowerChar(CharAt(s, i)) \o LowerStr(s, i + 1)

RECURSIVE StripUnderscores(_)
StripUnderscores(s) ==
    IF Len(s) = 0 THEN s
    ELSE IF CharAt(s, 1) = "_" THEN StripUnderscores(SubSeq(s, 2, Len(s)))
    ELSE IF CharAt(s, Len(s)) = "_" THEN StripUnderscores(SubSeq(s, 1, Len(s) - 1))
    ELSE s

to_snake_case(s) ==
    LET s1 == SubNonWord(s, 1)
        s2 == SubBoundary(s1, 1, DigitChars, LetterChars)
        s3 == SubBoundary(s2, 1, LetterChars, DigitChars)
        s4 == SubBoundary(s3, 1, LowerChars \cup DigitChars, UpperChars)
        s5 == LowerStr(s4, 1)
    IN  StripUnderscores(s5)

-----------------------------------------------------------------------------
(* Schemas: pa.DataFrameSchema as a sequence of pa.Column records          *)

DERIVED == "derived"
EXTRACTED == "extracted"

\* ColumnInference.when_has_columns
when_has_columns(column_names, fn) ==
    [condition |-> "has_columns", inference |-> fn, type |-> DERIVED,
     upstream_columns |-> column_names]

\* ColumnInference.when_has_context / extract_from_context
extract_from_context ==
    [condition |-> "has_context", inference |-> "extract", type |-> EXTRACTED,
     upstream_columns |-> <<>>]

\* pa.Column(dtype, required, nullable, default, metadata=ColumnMetadata(...))
Column(name, aliases, column_inferences, required, nullable, default) ==
    [name |-> name, aliases |-> aliases, column_inferences |-> column_inferences,
     required |-> required, nullable |-> nullable, default |-> default]

ColumnNames(sch) == {sch[i].name : i \in 1..Len(sch)}

ColumnOf(sch, name) == sch[CHOOSE i \in 1..Len(sch) : sch[i].name = name]

-----------------------------------------------------------------------------
(* _sort_columns_based_on_dependencies                                     *)

available_node == "<AVAILABLE>"

\* the edges one inference rule of column c adds to the graph
RuleEdges(c, inference, missing_column_names, ctx) ==
    IF inference.type = EXTRACTED /\ ctx
    THEN {<<c.name, available_node>>}
    ELSE {<<c.name, IF dependency \notin missing_column_names
                    THEN available_node ELSE dependency>> :
            dependency \in Range(inference.upstream_columns)}

graph(sch, missing_column_names, ctx) ==
    UNION {UNION {RuleEdges(sch[i], sch[i].column_inferences[j], missing_column_names, ctx) :
                    j \in 1..Len(sch[i].column_inferences)} :
             i \in 1..Len(sch)}

Score(kind, len) == [kind |-> kind, len |-> len]

\* nx.shortest_path_length(graph, node, target): breadth-first search; raises
\* NetworkXNoPath when target is not reachable
RECURSIVE BreadthFirst(_, _, _, _, _)
BreadthFirst(E, frontier, seen, d, target) ==
    IF target \in frontier THEN Score("len", d)
    ELSE LET next == {e[2] : e \in {x \in E : x[1] \in frontier}} \ seen
         IN  IF next = {} THEN Score("NetworkXNoPath", 0)
             ELSE BreadthFirst(E, next, seen \cup next, d + 1, target)

shortest_path_length(E, node, target) == BreadthFirst(E, {node}, {node}, 0, target)

get_score_uncaught(E, node) == shortest_path_length(E, node, available_node)

get_score(E, node) ==
    LET r == shortest_path_length(E, node, available_node)
    IN  IF r.kind = "NetworkXNoPath" THEN Score("inf", 0) ELSE r

\* a < b for the keys sorted() compares: path lengths and float("inf")
ScoreLess(a, b) ==
    \/ a.kind = "len" /\ b.kind = "len" /\ a.len < b.len
    \/ a.kind = "len" /\ b.kind = "inf"

\* sorted(keys, key=score): stable, so equal keys keep the order of `keys`
RECURSIVE StableInsert(_, _, _)
StableInsert(acc, x, score) ==
    IF acc = <<>> THEN <<x>>
    ELSE IF ScoreLess(score[x], score[acc[Len(acc)]])
         THEN Append(StableInsert(SubSeq(acc, 1, Len(acc) - 1), x, score), acc[Len(acc)])
         ELSE Append(acc, x)

RECURSIVE StableSort(_, _, _)
StableSort(keys, n, score) ==
    IF n = 0 THEN <<>>
    ELSE StableInsert(StableSort(keys, n - 1, score), keys[n], score)

SortResult(error, columns) == [error |-> error, columns |-> columns]

\* iteration is the order in which Python iterates the set missing_column_names
sort_columns_based_on_dependencies(sch, missing, ctx, iteration) ==
    LET missing_column_names == Range(missing)
        E == graph(sch, missing_column_names, ctx)
        scored_columns == [column_name \in missing_column_names |-> get_score(E, column_name)]
    IN  IF \E c \in missing_column_names : scored_columns[c].kind = "NetworkXNoPath"
        THEN SortResult("NetworkXNoPath", <<>>)
        ELSE SortResult("", StableSort(iteration, Len(iteration), scored_columns))

-----------------------------------------------------------------------------
(* Decision Log: LoggingSession.log_decision / log_column_alignment_op     *)

COLUMN_ALIGNED == "column_aligned"

RenameOperation(original_name, new_name) ==
    [op |-> "rename", original_name |-> original_name, new_name |-> new_name]

InferenceOperation(type) == [op |-> "inference", type |-> type]

SetValueOperation(value) == [op |-> "set_value", value |-> value]

\* Decision(type=COLUMN_ALIGNED, content=ColumnAlignment(column_name, operations))
ColumnAlignment(column_name, operations) ==
    [type |-> COLUMN_ALIGNED, column_name |-> column_name, operations |-> operations]

log_decision(is_set, decs, decision) ==
    IF ~is_set THEN decs ELSE Append(decs, decision)

\* NodeMetadata.get_column_alignments_as_dict: the position, for a column name, of
\* the Decision the dict holds for it (a later Decision replaces an earlier one)
AlignedIndexes(decs, column_name) ==
    {i \in 1..Len(decs) : decs[i].type = COLUMN_ALIGNED /\ decs[i].column_name = column_name}

get_column_alignment_index(decs, column_name) ==
    CHOOSE i \in AlignedIndexes(decs, column_name) :
        \A j \in AlignedIndexes(decs, column_name) : j <= i

\* a later operation replaces the operations of the column
log_column_alignment_op_replacing(is_set, decs, column_name, operation) ==
    IF ~is_set THEN decs
    ELSE IF AlignedIndexes(decs, column_name) = {}
    THEN log_decision(is_set, decs, ColumnAlignment(column_name, <<operation>>))
    ELSE LET i == get_column_alignment_index(decs, column_name)
         IN  [decs EXCEPT ![i].operations = <<operation>>]

\* every operation gets a Decision of its own
log_column_alignment_op_always_new(is_set, decs, column_name, operation) ==
    log_decision(is_set, decs, ColumnAlignment(column_name, <<operation>>))

log_column_alignment_op(is_set, decs, column_name, operation) ==
    IF ~is_set THEN decs
    ELSE IF AlignedIndexes(decs, column_name) = {}
    THEN log_decision(is_set, decs, ColumnAlignment(column_name, <<operation>>))
    ELSE LET i == get_column_alignment_index(decs, column_name)
         IN  [decs EXCEPT ![i].operations = Append(@, operation)]

\* every operation logged for a column, in order
OperationsOf(decs, column_name) ==
    IF AlignedIndexes(decs, column_name) = {} THEN <<>>
    ELSE decs[get_column_alignment_index(decs, column_name)].operations

-----------------------------------------------------------------------------
(* Dataframes: a sequence of columns, each a name and one cell per row     *)

NumRows == 2

DfColumns(df) == {df[i].name : i \in 1..Len(df)}

DfIndexes(df, name) == {i \in 1..Len(df) : df[i].name = name}

\* dataframe[name] when exactly one column carries the name
DfGet(df, name) == df[CHOOSE i \in 1..Len(df) : df[i].name = name].values

\* dataframe[name] = values
DfAssign(df, name, values) ==
    IF name \in DfColumns(df)
    THEN [i \in 1..Len(df) |-> IF df[i].name = name
                               THEN [name |-> name, values |-> values] ELSE df[i]]
    ELSE Append(df, [name |-> name, values |-> values])

\* rename whose result is not kept: the dataframe stays as it was
DfRenameDiscarded(df, mapping) == df

\* dataframe.rename(columns=mapping)
DfRename(df, mapping) ==
    [i \in 1..Len(df) |->
        IF df[i].name \in DOMAIN mapping
        THEN [name |-> mapping[df[i].name], values |-> df[i].values]
        ELSE df[i]]

Broadcast(v) == [r \in 1..NumRows |-> v]

\* the cells of the source column called name
SourceCells(name) == [r \in 1..NumRows |-> (Len(name) * r) % 4]

SourceDataframe(names) ==
    [i \in 1..Len(names) |-> [name |-> names[i], values |-> SourceCells(names[i])]]

-----------------------------------------------------------------------------
(* get_column_name: the semantic column-name matcher                       *)

None == "<None>"
NoCall == "<no call>"

\* every name a source column can have
SourceNames ==
    {"N_CASE", "N_CONTROL", "N", "n", "num_samples", "num_cases", "num_controls",
     "dataset_id", "subject_id", "value_type", "Value Type", "subject"}

\* to_snake_case of the source names, computed once
SnakeCased == [name \in SourceNames |-> to_snake_case(name)]

\* column_map = dict(zip(snake-cased names, original names)): of two source
\* columns with one snake-cased name the later one stays in the dict
ColumnMapKeys(names) == {SnakeCased[names[i]] : i \in 1..Len(names)}

\* the lookup keeping the first of two source columns with one snake-cased name
column_map_first(names, key) ==
    names[CHOOSE i \in 1..Len(names) :
            /\ SnakeCased[names[i]] = key
            /\ \A j \in 1..Len(names) : SnakeCased[names[j]] = key => i <= j]

column_map(names, key) ==
    names[CHOOSE i \in 1..Len(names) :
            /\ SnakeCased[names[i]] = key
            /\ \A j \in 1..Len(names) : SnakeCased[names[j]] = key => j <= i]

\* the lookup without the guard of dict.get: an unknown answer is taken as a name
get_column_name_unchecked(names, response) ==
    IF response \in ColumnMapKeys(names) THEN column_map(names, response)
    ELSE IF response = "" THEN None ELSE response

\* column_map.get(llm_response)
get_column_name(names, response) ==
    IF response \in ColumnMapKeys(names) THEN column_map(names, response) ELSE None

\* what llm.predict may answer
LlmAnswers(names) == {"", "unknown_column"} \cup Range(names) \cup ColumnMapKeys(names)

-----------------------------------------------------------------------------
(* Inference rules and validation                                          *)

Add(a, b) == IF a = NA \/ b = NA THEN NA ELSE a + b
Sub(a, b) == IF a = NA \/ b = NA THEN NA ELSE a - b

\* inference.condition(session)
condition(inference, df, ctx) ==
    CASE inference.condition = "has_columns" ->
            Range(inference.upstream_columns) \subseteq DfColumns(df)
      [] inference.condition = "has_context" -> ctx
      [] OTHER -> TRUE

ExecResult(error, values) == [error |-> error, values |-> values]

\* what the LLM extraction, post-processed, may yield for the column
ExtractedValues == {4}

\* inference.execute(session): the results the inference function can have
execute(inference, df) ==
    CASE inference.inference \in {"sum", "difference"} ->
            LET a == inference.upstream_columns[1]
                b == inference.upstream_columns[2]
            IN  IF Cardinality(DfIndexes(df, a)) # 1 \/ Cardinality(DfIndexes(df, b)) # 1
                THEN {ExecResult("ValueError", <<>>)}
                ELSE {ExecResult("", [r \in 1..NumRows |->
                        IF inference.inference = "sum"
                        THEN Add(DfGet(df, a)[r], DfGet(df, b)[r])
                        ELSE Sub(DfGet(df, a)[r], DfGet(df, b)[r])])}
      [] inference.inference = "extract" ->
            {ExecResult("", Broadcast(v)) : v \in ExtractedValues}
                \cup {ExecResult("ValueError", <<>>)}
      [] OTHER -> {ExecResult("", Broadcast(0))}

\* the rules of a column whose condition holds
Satisfied(column, df, ctx) ==
    {j \in 1..Len(column.column_inferences) : condition(column.column_inferences[j], df, ctx)}

\* the last element where the first one is due
LastOf(S) == CHOOSE j \in S : \A k \in S : k <= j

FirstOf(S) == CHOOSE j \in S : \A k \in S : j <= k

\* the last rule whose condition holds, where the first one is due
matched_inference_last(column, df, ctx) == LastOf(Satisfied(column, df, ctx))

\* the first rule, in declaration order, whose condition holds
matched_inference(column, df, ctx) == FirstOf(Satisfied(column, df, ctx))

\* column.required and not column.nullable and column.default is None
is_unresolvable_ignoring_nullable(column) == column.required /\ column.default = NA

is_unresolvable(column) == column.required /\ ~column.nullable /\ column.default = NA

\* strict="filter": the columns the schema does not name are dropped
StrictFilter(sch, df) == SelectSeq(df, LAMBDA col : col.name \in ColumnNames(sch))

HasNull(values) == \E r \in 1..NumRows : values[r] = NA

\* schema.validate(dataframe) succeeds
validates(sch, df) ==
    \A i \in 1..Len(sch) :
        /\ sch[i].required => sch[i].name \in DfColumns(df)
        /\ \A k \in DfIndexes(df, sch[i].name) : sch[i].nullable \/ ~HasNull(df[k].values)

-----------------------------------------------------------------------------
(* The schemas and source dataframes the alignment is run on               *)

\* gwas.create, the sample-count columns; the three columns take the flags
\* (required, nullable, default) given, which pa.Column defaults to (True, False, None)
GwasCounts(required, nullable, default) == <<
    Column("num_samples",
           <<"N", "NMISS", "Nsample", "OBS_CT", "SS", "TotalSampleSize", "n",
             "num_samples", "sample_size">>,
           <<when_has_columns(<<"num_cases", "num_controls">>, "sum")>>,
           required, nullable, default),
    Column("num_cases",
           <<"N_CASE", "ncase", "TotalCases">>,
           <<when_has_columns(<<"num_samples", "num_controls">>, "difference"),
             extract_from_context>>,
           required, nullable, default),
    Column("num_controls",
           <<"N_CONTROL", "ncontrol", "TotalControls">>,
           <<when_has_columns(<<"num_samples", "num_cases">>, "difference"),
             extract_from_context>>,
           required, nullable, default) >>

Gwas == GwasCounts(TRUE, FALSE, NA)

\* schemas.dataset_id_column
dataset_id_column ==
    Column("dataset_id", <<>>,
           <<[condition |-> "always", inference |-> "stem", type |-> DERIVED,
              upstream_columns |-> <<>>]>>,
           TRUE, FALSE, NA)

\* rna_seq.create, its first columns and value_type
RnaSeq == <<
    dataset_id_column,
    Column("subject_id", <<>>, <<>>, TRUE, TRUE, NA),
    Column("value_type", <<>>, <<extract_from_context>>, TRUE, FALSE, NA) >>

AlignSchemas ==
    {GwasCounts(required, nullable, default) :
        required \in BOOLEAN, nullable \in BOOLEAN, default \in {NA, 0}}
    \cup {RnaSeq}

\* the column names a source dataframe is made of, in the order they appear in
SourceUniverse(sch) ==
    IF sch = RnaSeq
    THEN <<"dataset_id", "subject_id", "value_type", "Value Type", "subject">>
    ELSE <<"N_CASE", "N_CONTROL", "N", "n", "num_samples", "num_cases", "num_controls">>

MaxSourceColumns == 3

SourceColumnChoices(sch) ==
    {SelectSeq(SourceUniverse(sch), LAMBDA name : name \in S) :
        S \in {T \in SUBSET Range(SourceUniverse(sch)) : Cardinality(T) <= MaxSourceColumns}}

-----------------------------------------------------------------------------
(* align_dataframe_to_schema                                               *)

\* normalise is not running
NormIdle ==
    /\ series = <<>>
    /\ candidates = <<>>
    /\ task = <<>>
    /\ attempt_number = <<>>
    /\ llm_calls = <<>>
    /\ failures = <<>>
    /\ last_answer = <<>>
    /\ result = <<>>
    /\ chunk_idx = 0
    /\ all_results = <<>>
    /\ output = <<>>
    /\ norm_pc = "idle"
    /\ index = <<>>
    /\ algorithm = ""
    /\ completion_order = <<>>
    /\ xref_mapping = <<>>
    /\ prefix = ""
    /\ output_index = <<>>

\* no logging_session is being entered or left
SessIdle ==
    /\ session = "none"
    /\ previous_session = "none"
    /\ output_dir = ""
    /\ status = "unknown"
    /\ status_log = <<>>
    /\ persisted = {}
    /\ raised = ""
    /\ sess_pc = "idle"
    /\ body_pc = "idle"
    /\ node_id = ""
    /\ filename = ""
    /\ output_written = FALSE
    /\ nodes = <<>>
    /\ frames = <<>>
    /\ calls = 0

InitAlign ==
    /\ schema \in AlignSchemas
    /\ source_columns \in SourceColumnChoices(schema)
    /\ dataframe = SourceDataframe(source_columns)
    /\ context_available \in BOOLEAN
    /\ node_is_set \in BOOLEAN
    /\ decisions = <<>>
    /\ column_name_mapping = <<>>
    /\ missing_columns = <<>>
    /\ llm_response = [c \in ColumnNames(schema) |-> NoCall]
    /\ col_idx = 1
    /\ set_iteration = <<>>
    /\ sorted_columns = SortResult("", <<>>)
    /\ pc = "match"
    /\ outcome = "running"
    /\ NormIdle
    /\ SessIdle

AliasHits(column, names) ==
    {i \in 1..Len(column.aliases) : column.aliases[i] \in Range(names)}

NextMatch == IF col_idx = Len(schema) THEN "rename" ELSE "match"

\* first loop, a column one of whose aliases is a column of the dataframe
MatchAlias ==
    /\ pc = "match"
    /\ AliasHits(schema[col_idx], source_columns) # {}
    /\ LET column == schema[col_idx]
           alias == column.aliases[FirstOf(AliasHits(column, source_columns))]
       IN  /\ column_name_mapping' = (alias :> column.name) @@ column_name_mapping
           /\ decisions' = log_column_alignment_op(node_is_set, decisions, column.name,
                                RenameOperation(alias, column.name))
    /\ col_idx' = IF col_idx = Len(schema) THEN 1 ELSE col_idx + 1
    /\ pc' = NextMatch
    /\ UNCHANGED <<schema, source_columns, dataframe, context_available, node_is_set,
                   missing_columns, llm_response, set_iteration, sorted_columns, outcome>>
    /\ UNCHANGED <<normVars, sessVars>>

\* first loop, no alias found: the matcher is asked
MatchLlm ==
    /\ pc = "match"
    /\ AliasHits(schema[col_idx], source_columns) = {}
    /\ \E response \in LlmAnswers(source_columns) :
        LET column == schema[col_idx]
            column_name == get_column_name(source_columns, response)
        IN  /\ llm_response' = [llm_response EXCEPT ![column.name] = response]
            /\ IF column_name # None
               THEN /\ column_name_mapping' = (column_name :> column.name) @@ column_name_mapping
                    /\ decisions' = log_column_alignment_op(node_is_set, decisions, column.name,
                                        RenameOperation(column_name, column.name))
                    /\ UNCHANGED missing_columns
               ELSE /\ missing_columns' = Append(missing_columns, column.name)
                    /\ UNCHANGED <<column_name_mapping, decisions>>
    /\ col_idx' = IF col_idx = Len(schema) THEN 1 ELSE col_idx + 1
    /\ pc' = NextMatch
    /\ UNCHANGED <<schema, source_columns, dataframe, context_available, node_is_set,
                   set_iteration, sorted_columns, outcome>>
    /\ UNCHANGED <<normVars, sessVars>>

\* dataframe.rename(columns=column_name_mapping), then the missing columns are ordered
RenameAndSort ==
    /\ pc = "rename"
    /\ dataframe' = DfRename(dataframe, column_name_mapping)
    /\ \E iteration \in Perms(Range(missing_columns)) :
        /\ set_iteration' = iteration
        /\ sorted_columns' = sort_columns_based_on_dependencies(
                                schema, missing_columns, context_available, iteration)
    /\ col_idx' = 1
    /\ pc' = IF sorted_columns'.error # "" THEN "done"
             ELSE IF sorted_columns'.columns = <<>> THEN "validate" ELSE "infer"
    /\ outcome' = IF sorted_columns'.error # "" THEN sorted_columns'.error ELSE outcome
    /\ UNCHANGED <<schema, source_columns, context_available, node_is_set, decisions,
                   column_name_mapping, missing_columns, llm_response>>
    /\ UNCHANGED <<normVars, sessVars>>

CurrentColumn == ColumnOf(schema, sorted_columns.columns[col_idx])

NextInfer == IF col_idx = Len(sorted_columns.columns) THEN "validate" ELSE "infer"

\* second loop, the first rule whose condition holds runs
InferColumn ==
    /\ pc = "infer"
    /\ Satisfied(CurrentColumn, dataframe, context_available) # {}
    /\ LET column == CurrentColumn
           j == matched_inference(column, dataframe, context_available)
           inference == column.column_inferences[j]
       IN  \E res \in execute(inference, dataframe) :
            /\ res.error = ""
            /\ dataframe' = DfAssign(dataframe, column.name, res.values)
            /\ decisions' = log_column_alignment_op(node_is_set, decisions, column.name,
                                InferenceOperation(inference.type))
    /\ col_idx' = col_idx + 1
    /\ pc' = NextInfer
    /\ UNCHANGED <<schema, source_columns, context_available, node_is_set,
                   column_name_mapping, missing_columns, llm_response, set_iteration,
                   sorted_columns, outcome>>
    /\ UNCHANGED <<normVars, sessVars>>

\* second loop, the rule that runs raises: the error leaves the call
InferRaises ==
    /\ pc = "infer"
    /\ Satisfied(CurrentColumn, dataframe, context_available) # {}
    /\ LET column == CurrentColumn
           j == matched_inference(column, dataframe, context_available)
       IN  \E res \in execute(column.column_inferences[j], dataframe) :
            /\ res.error # ""
            /\ outcome' = res.error
    /\ pc' = "done"
    /\ UNCHANGED <<schema, source_columns, dataframe, context_available, node_is_set,
                   decisions, column_name_mapping, missing_columns, llm_response, col_idx,
                   set_iteration, sorted_columns>>
    /\ UNCHANGED <<normVars, sessVars>>

\* second loop, no rule matches: the default value
SetDefault ==
    /\ pc = "infer"
    /\ Satisfied(CurrentColumn, dataframe, context_available) = {}
    /\ ~is_unresolvable(CurrentColumn)
    /\ dataframe' = DfAssign(dataframe, CurrentColumn.name, Broadcast(CurrentColumn.default))
    /\ decisions' = log_column_alignment_op(node_is_set, decisions, CurrentColumn.name,
                        SetValueOperation(CurrentColumn.default))
    /\ col_idx' = col_idx + 1
    /\ pc' = NextInfer
    /\ UNCHANGED <<schema, source_columns, context_available, node_is_set,
                   column_name_mapping, missing_columns, llm_response, set_iteration,
                   sorted_columns, outcome>>
    /\ UNCHANGED <<normVars, sessVars>>

\* second loop, no rule matches and nothing to fall back on
RaiseMissing ==
    /\ pc = "infer"
    /\ Satisfied(CurrentColumn, dataframe, context_available) = {}
    /\ is_unresolvable(CurrentColumn)
    /\ outcome' = "ValueError"
    /\ pc' = "done"
    /\ UNCHANGED <<schema, source_columns, dataframe, context_available, node_is_set,
                   decisions, column_name_mapping, missing_columns, llm_response, col_idx,
                   set_iteration, sorted_columns>>
    /\ UNCHANGED <<normVars, sessVars>>

\* return schema.validate(dataframe)
Validate ==
    /\ pc = "validate"
    /\ IF validates(schema, dataframe)
       THEN /\ dataframe' = StrictFilter(schema, dataframe)
            /\ outcome' = "returned"
       ELSE /\ outcome' = "SchemaError"
            /\ UNCHANGED dataframe
    /\ pc' = "done"
    /\ UNCHANGED <<schema, source_columns, context_available, node_is_set, decisions,
                   column_name_mapping, missing_columns, llm_response, col_idx,
                   set_iteration, sorted_columns>>
    /\ UNCHANGED <<normVars, sessVars>>

NextAlign ==
    \/ MatchAlias
    \/ MatchLlm
    \/ RenameAndSort
    \/ InferColumn
    \/ InferRaises
    \/ SetDefault
    \/ RaiseMissing
    \/ Validate

Spec == InitAlign /\ [][NextAlign]_vars

-----------------------------------------------------------------------------
(* _sort_columns_based_on_dependencies as a function of its arguments      *)

SchedNames == <<"A", "B", "C">>

Upstreams(name) ==
    LET others == Range(SchedNames) \ {name}
    IN  {<<x>> : x \in others}
        \cup {u \in {<<x, y>> : x, y \in others} : u[1] # u[2]}

RuleLists(name) ==
    {<<>>, <<extract_from_context>>}
    \cup {<<when_has_columns(u, "derive")>> : u \in Upstreams(name)}
    \cup {<<when_has_columns(u, "derive"), extract_from_context>> : u \in Upstreams(name)}

SchedColumn(name, column_inferences) == Column(name, <<>>, column_inferences, TRUE, FALSE, NA)

SchedSchemas ==
    {<<SchedColumn("A", ra), SchedColumn("B", rb), SchedColumn("C", rc)>> :
        ra \in RuleLists("A"), rb \in RuleLists("B"), rc \in RuleLists("C")}

InitSched ==
    /\ schema \in SchedSchemas
    /\ missing_columns \in {SelectSeq(SchedNames, LAMBDA name : name \in S) :
                              S \in SUBSET Range(SchedNames)}
    /\ context_available \in BOOLEAN
    /\ source_columns = <<>>
    /\ dataframe = <<>>
    /\ node_is_set = FALSE
    /\ decisions = <<>>
    /\ column_name_mapping = <<>>
    /\ llm_response = <<>>
    /\ col_idx = 1
    /\ set_iteration = <<>>
    /\ sorted_columns = SortResult("", <<>>)
    /\ pc = "sort"
    /\ outcome = "running"
    /\ NormIdle
    /\ SessIdle

Sort ==
    /\ pc = "sort"
    /\ \E iteration \in Perms(Range(missing_columns)) :
        /\ set_iteration' = iteration
        /\ sorted_columns' = sort_columns_based_on_dependencies(
                                schema, missing_columns, context_available, iteration)
    /\ pc' = "sorted"
    /\ UNCHANGED <<schema, source_columns, dataframe, context_available, node_is_set,
                   decisions, column_name_mapping, missing_columns, llm_response, col_idx,
                   outcome>>
    /\ UNCHANGED <<normVars, sessVars>>

SpecSched == InitSched /\ [][Sort]_vars

-----------------------------------------------------------------------------
(* Properties of align_dataframe_to_schema (checked under Spec)            *)

HasOp(column_name, kinds) ==
    \E k \in 1..Len(OperationsOf(decisions, column_name)) :
        OperationsOf(decisions, column_name)[k].op \in kinds

CountOps(decs, column_name, kind) ==
    Cardinality({k \in 1..Len(OperationsOf(decs, column_name)) :
                    OperationsOf(decs, column_name)[k].op = kind})

\* the source dataframe holds every required column, by name or by alias
ContainsRequiredColumns ==
    \A i \in 1..Len(schema) :
        schema[i].required =>
            \/ schema[i].name \in Range(source_columns)
            \/ AliasHits(schema[i], source_columns) # {}

\* C1: a source dataframe that holds every required column of the schema, under
\* its name or an alias, is aligned without error and the dataframe returned
\* has exactly the columns of the schema (stated for the schemas of gwas.py and
\* rna_seq.py).
C1_AlignReturnsSchemaColumns ==
    (pc = "done" /\ schema \in {Gwas, RnaSeq} /\ ContainsRequiredColumns) =>
        /\ outcome = "returned"
        /\ DfColumns(dataframe) = ColumnNames(schema)

\* the columns of the source dataframe carry exactly the names of the schema
AlreadyAligned == Range(source_columns) = ColumnNames(schema)

\* C2: aligning an already-aligned dataframe logs no rename and no inference
\* operation for any column, and the columns come back as they were given.
C2_AlignedInputLogsNothing ==
    AlreadyAligned =>
        /\ \A c \in ColumnNames(schema) : ~HasOp(c, {"rename", "inference"})
        /\ pc = "done" =>
            /\ outcome = "returned"
            /\ Range(dataframe) = Range(SourceDataframe(source_columns))

\* a missing column is being handled and none of its rules' conditions holds
NoRuleMatches ==
    /\ pc = "infer"
    /\ \A j \in 1..Len(CurrentColumn.column_inferences) :
        ~condition(CurrentColumn.column_inferences[j], dataframe, context_available)

\* C3: for a missing column none of whose rules matches, the call raises, logging
\* nothing and assigning nothing, exactly when the column is required, not
\* nullable and without default; otherwise every row of the column takes the
\* default, one set-default operation is logged for it and the loop goes on.
C3_DefaultOrFail ==
    [][NoRuleMatches =>
        LET column == CurrentColumn
        IN  IF column.required /\ ~column.nullable /\ column.default = NA
            THEN /\ outcome' = "ValueError"
                 /\ pc' = "done"
                 /\ decisions' = decisions
                 /\ dataframe' = dataframe
            ELSE /\ outcome' = "running"
                 /\ pc' \in {"infer", "validate"}
                 /\ col_idx' = col_idx + 1
                 /\ Cardinality(DfIndexes(dataframe', column.name)) = 1
                 /\ \A r \in 1..NumRows : DfGet(dataframe', column.name)[r] = column.default
                 /\ node_is_set =>
                     /\ CountOps(decisions', column.name, "set_value") = 1
                     /\ CountOps(decisions, column.name, "set_value") = 0
                     /\ OperationsOf(decisions', column.name) =
                          Append(OperationsOf(decisions, column.name),
                                 SetValueOperation(column.default))
                     /\ \A c \in ColumnNames(schema) \ {column.name} :
                          OperationsOf(decisions', c) = OperationsOf(decisions, c)]_vars

\* a required, nullable column without default has been set to its default
C3_Witness ==
    /\ node_is_set
    /\ outcome = "returned"
    /\ \E i \in 1..Len(schema) :
        /\ schema[i].required /\ schema[i].nullable /\ schema[i].default = NA
        /\ schema[i].name \in Range(missing_columns)
        /\ OperationsOf(decisions, schema[i].name) = <<SetValueOperation(NA)>>

\* the matcher was asked about the column
Asked(c) == llm_response[c] # NoCall

\* C4 as stated: an answer of the matcher that is no column name of the source
\* dataframe is ignored: no rename is logged for the schema column, which is put
\* in the missing list.
C4_AnswerNotASourceColumnIgnored ==
    \A c \in ColumnNames(schema) :
        (Asked(c) /\ llm_response[c] \notin Range(source_columns)) =>
            /\ c \in Range(missing_columns)
            /\ ~HasOp(c, {"rename"})

\* C4 as amended: an answer of the matcher that is not the snake-cased name of a
\* source column is ignored: no rename is logged for the schema column and none
\* is kept for it, the column is put in the missing list, the answer raises
\* nothing, and the column is then handled by one inference or set-default
\* operation.
C4_AnswerNotASnakeCasedColumnIgnored ==
    \A c \in ColumnNames(schema) :
        (Asked(c) /\ llm_response[c] \notin {SnakeCased[n] : n \in Range(source_columns)}) =>
            /\ c \in Range(missing_columns)
            /\ ~HasOp(c, {"rename"})
            /\ \A k \in DOMAIN column_name_mapping : column_name_mapping[k] # c
            /\ pc \in {"match", "rename"} => outcome = "running"
            /\ (outcome = "returned" /\ node_is_set) =>
                /\ Len(OperationsOf(decisions, c)) = 1
                /\ HasOp(c, {"inference", "set_value"})

\* the matcher answered with a name that is no column, and the column was inferred
C4_Witness ==
    /\ node_is_set
    /\ outcome = "returned"
    /\ \E c \in ColumnNames(schema) :
        /\ llm_response[c] = "unknown_column"
        /\ c \in Range(missing_columns)
        /\ HasOp(c, {"inference"})

\* the input of the end-to-end scenario
CaseControlInput ==
    /\ schema = Gwas
    /\ source_columns = <<"N_CASE", "N_CONTROL">>
    /\ node_is_set
    /\ Asked("num_samples") => get_column_name(source_columns, llm_response["num_samples"]) = None

\* C5: with the aliases N_CASE and N_CONTROL renamed, num_samples is the sum of
\* num_cases and num_controls on every row, and three column-aligned Decisions
\* are logged: two renames and one derived inference; the rules of the missing
\* columns see the dataframe with every rename applied.
C5_CaseControlScenario ==
    /\ (pc = "infer" /\ col_idx = 1) =>
        /\ \A k \in DOMAIN column_name_mapping : column_name_mapping[k] \in DfColumns(dataframe)
        /\ \A n \in DfColumns(dataframe) :
            \/ n \in Range(source_columns) \ DOMAIN column_name_mapping
            \/ \E k \in DOMAIN column_name_mapping : column_name_mapping[k] = n
    /\ (pc = "done" /\ CaseControlInput) =>
        /\ outcome = "returned"
        /\ DfColumns(dataframe) = {"num_samples", "num_cases", "num_controls"}
        /\ DfGet(dataframe, "num_cases") = SourceCells("N_CASE")
        /\ DfGet(dataframe, "num_controls") = SourceCells("N_CONTROL")
        /\ \A r \in 1..NumRows :
            DfGet(dataframe, "num_samples")[r] =
                DfGet(dataframe, "num_cases")[r] + DfGet(dataframe, "num_controls")[r]
        /\ decisions = <<
            ColumnAlignment("num_cases", <<RenameOperation("N_CASE", "num_cases")>>),
            ColumnAlignment("num_controls", <<RenameOperation("N_CONTROL", "num_controls")>>),
            ColumnAlignment("num_samples", <<InferenceOperation(DERIVED)>>) >>

\* the end-to-end scenario has run to its end
C5_Witness ==
    /\ pc = "done"
    /\ CaseControlInput
    /\ Asked("num_samples")
    /\ outcome = "returned"
    /\ Len(decisions) = 3

-----------------------------------------------------------------------------
(* Properties of _sort_columns_based_on_dependencies (checked under        *)
(* SpecSched)                                                              *)

PositionIn(seq, x) == CHOOSE i \in 1..Len(seq) : seq[i] = x

SchemaPosition(name) == CHOOSE i \in 1..Len(schema) : schema[i].name = name

\* a rule of column a names column b among its upstream columns
Depends(a, b) ==
    \E j \in 1..Len(ColumnOf(schema, a).column_inferences) :
        b \in Range(ColumnOf(schema, a).column_inferences[j].upstream_columns)

RECURSIVE ReachableFrom(_, _)
ReachableFrom(E, S) ==
    LET T == S \cup {e[2] : e \in {x \in E : x[1] \in S}}
    IN  IF T = S THEN S ELSE ReachableFrom(E, T)

DependencyEdges == {e \in ColumnNames(schema) \X ColumnNames(schema) : Depends(e[1], e[2])}

\* no column depends, directly or not, on itself
Acyclic ==
    \A c \in ColumnNames(schema) :
        c \notin ReachableFrom(DependencyEdges, {e[2] : e \in {x \in DependencyEdges : x[1] = c}})

SchedGraph == graph(schema, Range(missing_columns), context_available)

HasPath(c) == available_node \in ReachableFrom(SchedGraph, {c})

\* C6: with acyclic dependencies, a missing column one of whose rules needs
\* another missing column comes after that column in the order returned.
C6_DependenciesFirst ==
    (pc = "sorted" /\ Acyclic) =>
        /\ sorted_columns.error = ""
        /\ \A a, b \in Range(missing_columns) :
            Depends(a, b) =>
                PositionIn(sorted_columns.columns, b) < PositionIn(sorted_columns.columns, a)

\* the only rule of a needs b alone and the only rule of b needs a alone
MutualOnly(a, b) ==
    /\ a # b
    /\ Len(ColumnOf(schema, a).column_inferences) = 1
    /\ Len(ColumnOf(schema, b).column_inferences) = 1
    /\ ColumnOf(schema, a).column_inferences[1].upstream_columns = <<b>>
    /\ ColumnOf(schema, b).column_inferences[1].upstream_columns = <<a>>

\* C7: the ordering call ends without raising for every schema and missing set;
\* every missing column is returned once; two missing columns that only depend
\* on each other both get infinite distance; every column without a path to
\* AVAILABLE comes after every column with one.
C7_CyclesDegradeGracefully ==
    pc = "sorted" =>
        /\ sorted_columns.error = ""
        /\ Len(sorted_columns.columns) = Len(missing_columns)
        /\ Range(sorted_columns.columns) = Range(missing_columns)
        /\ \A a, b \in Range(missing_columns) :
            MutualOnly(a, b) =>
                /\ get_score(SchedGraph, a).kind = "inf"
                /\ get_score(SchedGraph, b).kind = "inf"
        /\ \A a, b \in Range(missing_columns) :
            (HasPath(a) /\ ~HasPath(b)) =>
                PositionIn(sorted_columns.columns, a) < PositionIn(sorted_columns.columns, b)

\* a two-column cycle was ordered together with a column that can be inferred
C7_Witness ==
    /\ pc = "sorted"
    /\ Len(missing_columns) = 3
    /\ \E a, b \in Range(missing_columns) : MutualOnly(a, b)
    /\ HasPath(sorted_columns.columns[1])
    /\ ~HasPath(sorted_columns.columns[2])
    /\ ~HasPath(sorted_columns.columns[3])

\* C8: missing columns with the same distance to AVAILABLE are returned in
\* the order of the schema's columns.
C8_TiesInSchemaOrder ==
    pc = "sorted" =>
        \A i, j \in 1..Len(sorted_columns.columns) :
            (/\ i < j
             /\ get_score(SchedGraph, sorted_columns.columns[i]) =
                get_score(SchedGraph, sorted_columns.columns[j])) =>
                SchemaPosition(sorted_columns.columns[i]) < SchemaPosition(sorted_columns.columns[j])

-----------------------------------------------------------------------------
(* EntityNormaliser.normalise, the retrieval and classification branch     *)

\* similarity scores, in millionths
ONE == 1000000

\* np.isclose(a, b): |a - b| <= atol + rtol * |b|, atol = 1e-8, rtol = 1e-5
Abs(x) == IF x < 0 THEN 0 - x ELSE x

isclose_never(a, b) == a > b

isclose(a, b) == 100000 * Abs(a - b) <= 1000 + Abs(b)

\* stop=tenacity.stop_after_attempt(5)
MaxAttempts == 5

stop_one_attempt_late(n) == n >= MaxAttempts + 1

stop_after_attempt(n) == n >= MaxAttempts

\* _classify(chunk_size=64), scaled down
ChunkSize == 2

\* rows of the series and distinct mentions it can hold; mentions are numbered
\* in the order groupby("mention") yields them
NumMentions == 3

SeriesChoices ==
    {<<1, 2, 3>>, <<2, 1, 2>>, <<3, NA, 3>>, <<NA, NA, NA>>, <<2, 3, NA>>}

\* series.dropna().unique(), in groupby order
Mentions(ser) == {ser[i] : i \in 1..Len(ser)} \ {NA}

Entity(name, id, score) == [name |-> name, id |-> id, score |-> score]

NoEntity == Entity("", "", 0)

\* scores the best candidate of a mention can have
TopScores == {ONE, ONE - 5, ONE - 20}

\* the ids of the ontology entities close to a mention, best first
EntityIds(m) ==
    IF m = 1 THEN <<"ID:11", "ID:12">>
    ELSE IF m = 2 THEN <<"ID:21", "ID:22">>
    ELSE <<"ID:31", "ID:32">>

\* dense_retriever.retrieve(mentions, top_k=10): the candidates of a mention, best first
Retrieved(m, top_score) ==
    <<Entity("e1", EntityIds(m)[1], top_score), Entity("e2", EntityIds(m)[2], ONE - 200000)>>

\* what llm.ainvoke may answer, wrangled
ClassifyAnswers == {"e1", "e2", "none of these"}

\* the answer selects an entity only: an answer that names none yields none
select_entity_no_fallback(entities, response) ==
    IF \E i \in 1..Len(entities) : entities[i].name = response
    THEN entities[CHOOSE i \in 1..Len(entities) : entities[i].name = response]
    ELSE NoEntity

\* {entity.name: entity for entity in entities}.get(response), or first_entity
select_entity(entities, response) ==
    IF \E i \in 1..Len(entities) : entities[i].name = response
    THEN entities[CHOOSE i \in 1..Len(entities) :
            /\ entities[i].name = response
            /\ \A j \in 1..Len(entities) : entities[j].name = response => j <= i]
    ELSE entities[1]

\* more_itertools.chunked(groupby("mention"), n=chunk_size)
NumChunks(ser) == (Cardinality(Mentions(ser)) + ChunkSize - 1) \div ChunkSize

RECURSIVE SortedSeq(_)
SortedSeq(S) ==
    IF S = {} THEN <<>>
    ELSE LET m == CHOOSE x \in S : \A y \in S : x <= y
         IN  <<m>> \o SortedSeq(S \ {m})

\* no chunking: every mention in one chunk
ChunkOfEverything(ser, k) == SortedSeq(Mentions(ser))

Chunk(ser, k) ==
    LET all == SortedSeq(Mentions(ser))
        last == IF k * ChunkSize < Len(all) THEN k * ChunkSize ELSE Len(all)
    IN  SubSeq(all, (k - 1) * ChunkSize + 1, last)

InChunk(ser, k) == Range(Chunk(ser, k))

MappingOperation(type, mappings) == [op |-> "mapping", type |-> type, mappings |-> mappings]

ResultRow(mention, entity) ==
    [mention |-> mention, name |-> entity.name, id |-> entity.id, score |-> entity.score]

series_name == "trait_id"

\* the row of results that resolves the mention of row r, 0 when there is none
\* (merge(..., on="mention", how="right"): the rows of a mention in the order of results)
MergedRow(results, ser, r) ==
    LET hits == {i \in 1..Len(results) : results[i].mention = ser[r]}
    IN  IF hits = {} THEN 0 ELSE FirstOf(hits)

\* groupby(temp_index_col_name).first(): rows are grouped by index label, sorted
\* by label, and a group keeps the first id of its rows that is not null
GroupLabels(idx) == SortedSeq(Range(idx))

GroupFirst(results, ser, idx, label) ==
    LET rows == {r \in 1..Len(ser) : idx[r] = label /\ MergedRow(results, ser, r) # 0}
    IN  IF rows = {} THEN "<NA>" ELSE results[MergedRow(results, ser, FirstOf(rows))].id

\* ids.loc[index]: for every label of index, in order, the row of ids with that label
loc(labels, idx) == [r \in 1..Len(idx) |-> CHOOSE g \in 1..Len(labels) : labels[g] = idx[r]]

\* _finalise_output without the logging: [index |-> labels, values |-> ids]
finalise_output(results, ser, idx) ==
    LET labels == GroupLabels(idx)
        picked == loc(labels, idx)
    IN  [index  |-> [r \in 1..Len(idx) |-> labels[picked[r]]],
         values |-> [r \in 1..Len(idx) |-> GroupFirst(results, ser, idx, labels[picked[r]])]]

-----------------------------------------------------------------------------
(* EntityNormaliser.normalise: the branches                                *)

RETRIEVAL == "retrieval"
RETRIEVAL_AND_CLASSIFICATION == "retrieval_and_classification"
AGENTIC_RETRIEVAL_AND_CLASSIFICATION == "agentic_retrieval_and_classification"

Algorithms == {RETRIEVAL, RETRIEVAL_AND_CLASSIFICATION, AGENTIC_RETRIEVAL_AND_CLASSIFICATION}

\* index labels a series of three rows can carry: the default range, labels
\* out of order, a label carried by two rows
IndexChoices == {<<0, 1, 2>>, <<5, 3, 4>>, <<0, 0, 1>>}

\* str.strip(chars)
RECURSIVE strip(_, _)
strip(s, chars) ==
    IF Len(s) = 0 THEN s
    ELSE IF CharAt(s, 1) \in chars THEN strip(SubSeq(s, 2, Len(s)), chars)
    ELSE IF CharAt(s, Len(s)) \in chars THEN strip(SubSeq(s, 1, Len(s) - 1), chars)
    ELSE s

Whitespace == {" "}

\* what the model may answer to the prompt of is_free_text
FreeTextAnswers == {"free text", " 'Free text.'", "identifiers", "Identifiers."}

\* response.lower().strip().strip(".").strip("'") == "free text"
is_free_text(response) ==
    strip(strip(strip(LowerStr(response, 1), Whitespace), {"."}), {"'"}) = "free text"

\* series.dropna().unique(): the mentions in the order of their first row
RECURSIVE unique(_, _)
unique(ser, i) ==
    IF i > Len(ser) THEN <<>>
    ELSE IF ser[i] = NA \/ \E j \in 1..(i - 1) : ser[j] = ser[i] THEN unique(ser, i + 1)
    ELSE <<ser[i]>> \o unique(ser, i + 1)

\* _retrieve(series, dense_retriever, top_k=1): one row for every mention
retrieve_top_1(ser, cands) ==
    [i \in 1..Len(unique(ser, 1)) |-> ResultRow(unique(ser, 1)[i], cands[unique(ser, 1)[i]][1])]

\* the text of the identifiers a column holds, by mention
MentionText(m) == IF m = 1 THEN "123" ELSE IF m = 2 THEN "456" ELSE "PFX:123"

\* series.astype(str)
astype_str(v) == IF v = NA THEN "nan" ELSE MentionText(v)

XrefRow(id, xrefs, name) == [id |-> id, xrefs |-> xrefs, name |-> name]

\* tables store.load_xref_mapping can return: one entity for every xref, two
\* entities owning one xref, two prefixes, an xref with two owners next to an
\* xref with one, no xref at all
XrefTables ==
    {<<XrefRow("ID:1", "PFX:123", "e1"), XrefRow("ID:2", "PFX:456", "e2")>>,
     <<XrefRow("ID:1", "PFX:123", "e1"), XrefRow("ID:2", "PFX:123", "e2")>>,
     <<XrefRow("ID:1", "PFX:123", "e1"), XrefRow("ID:2", "ALT:456", "e2")>>,
     <<XrefRow("ID:3", "PFX:456", "e3"), XrefRow("ID:2", "PFX:123", "e2"),
       XrefRow("ID:1", "PFX:123", "e1")>>,
     <<>>}

\* xrefs.str.extract(r"(.+?):"): the text before the first colon that has text before it
curie_prefix(x) ==
    LET colons == {i \in 2..Len(x) : CharAt(x, i) = ":"}
    IN  IF colons = {} THEN None ELSE SubSeq(x, 1, FirstOf(colons) - 1)

\* _get_available_curie_prefixes
get_available_curie_prefixes(table) == {curie_prefix(table[i].xrefs) : i \in 1..Len(table)}

\* what the model may answer to the prompt of _get_curie_prefix_if_needed
PrefixAnswers == {"PFX", " PFX ", "", "ALT", "pfx"}

NoPrefixCall == "<no call>"

\* any stripped answer is taken as the prefix
get_curie_prefix_unchecked(available_prefixes, response) == strip(response, Whitespace)

\* _get_curie_prefix_if_needed: the stripped answer if it is an available prefix
get_curie_prefix_if_needed(available_prefixes, response) ==
    IF strip(response, Whitespace) \in available_prefixes
    THEN strip(response, Whitespace)
    ELSE None

\* mapping["xrefs"]: f"{prefix}:" + series.astype(str), or the mention itself
\* (an absent mention has no text and equals no xref)
mapping_xrefs(v, pfx) ==
    IF pfx # None THEN pfx \o ":" \o astype_str(v)
    ELSE IF v = NA THEN None
    ELSE MentionText(v)

\* DataFrame.drop_duplicates: the first of equal rows is kept
drop_duplicates(rows) ==
    LET keep == SortedSeq({i \in 1..Len(rows) : \A j \in 1..(i - 1) : rows[j] # rows[i]})
    IN  [k \in 1..Len(keep) |-> rows[keep[k]]]

\* xref_mapping.merge(mapping, on="xrefs"): the pairs of a table row and a
\* series row with equal xrefs, in the order of the table, then of the series
merge_on_xrefs(table, ser, pfx) ==
    LET n == Len(ser)
        pairs == [k \in 1..(Len(table) * n) |-> <<((k - 1) \div n) + 1, ((k - 1) % n) + 1>>]
        matching == SelectSeq(pairs, LAMBDA q : table[q[1]].xrefs = mapping_xrefs(ser[q[2]], pfx))
    IN  [k \in 1..Len(matching) |->
            [id |-> table[matching[k][1]].id, xrefs |-> table[matching[k][1]].xrefs,
             name |-> table[matching[k][1]].name, mention |-> ser[matching[k][2]]]]

\* .drop_duplicates().drop(columns=["xrefs"]).assign(score=1.0)
xref_results(table, ser, pfx) ==
    LET rows == drop_duplicates(merge_on_xrefs(table, ser, pfx))
    IN  [k \in 1..Len(rows) |->
            [mention |-> rows[k].mention, name |-> rows[k].name, id |-> rows[k].id,
             score |-> ONE]]

\* the rows gather delivers in the order the tasks completed
chunk_result_as_completed(chunk_, res, completed) ==
    LET done == SelectSeq(completed, LAMBDA m : m \in Range(chunk_))
    IN  [i \in 1..Len(done) |-> ResultRow(done[i], res[done[i]])]

\* _classify_chunk: gather returns the results in the order of the awaitables,
\* zip(chunk_, result) pairs them with the mentions of the chunk
chunk_result(chunk_, res, completed) ==
    [i \in 1..Len(chunk_) |-> ResultRow(chunk_[i], res[chunk_[i]])]

InitNorm ==
    /\ series \in SeriesChoices
    /\ index \in IndexChoices
    /\ algorithm \in Algorithms
    /\ node_is_set \in BOOLEAN
    /\ decisions = <<>>
    /\ candidates = <<>>
    /\ task = [m \in 1..NumMentions |-> "none"]
    /\ attempt_number = [m \in 1..NumMentions |-> 0]
    /\ llm_calls = [m \in 1..NumMentions |-> 0]
    /\ failures = [m \in 1..NumMentions |-> 0]
    /\ last_answer = [m \in 1..NumMentions |-> ""]
    /\ result = [m \in 1..NumMentions |-> NoEntity]
    /\ chunk_idx = 0
    /\ all_results = <<>>
    /\ output = <<>>
    /\ output_index = <<>>
    /\ completion_order = <<>>
    /\ xref_mapping = <<>>
    /\ prefix = NoPrefixCall
    /\ norm_pc = "start"
    /\ schema = <<>>
    /\ source_columns = <<>>
    /\ dataframe = <<>>
    /\ context_available = FALSE
    /\ column_name_mapping = <<>>
    /\ missing_columns = <<>>
    /\ llm_response = <<>>
    /\ col_idx = 1
    /\ set_iteration = <<>>
    /\ sorted_columns = SortResult("", <<>>)
    /\ pc = "idle"
    /\ outcome = "running"
    /\ SessIdle

classifyVars == <<task, attempt_number, llm_calls, failures, last_answer, result,
                  chunk_idx, completion_order>>

inputVars == <<series, index, algorithm>>

\* if series.dropna().empty: return series
ReturnEmpty ==
    /\ norm_pc = "start"
    /\ Mentions(series) = {}
    /\ output' = series
    /\ output_index' = index
    /\ norm_pc' = "returned"
    /\ UNCHANGED <<inputVars, classifyVars, candidates, all_results, xref_mapping, prefix>>
    /\ UNCHANGED <<alignVars, logVars, sessVars>>

\* if is_free_text(series, self.llm)
IsFreeText ==
    /\ norm_pc = "start"
    /\ Mentions(series) # {}
    /\ \E response \in FreeTextAnswers :
        norm_pc' = IF is_free_text(response) THEN "free_text" ELSE "xref"
    /\ UNCHANGED <<inputVars, classifyVars, candidates, all_results, xref_mapping, prefix,
                   output, output_index>>
    /\ UNCHANGED <<alignVars, logVars, sessVars>>

\* RETRIEVAL: results = _retrieve(series, self.dense_retriever, top_k=1)
RetrieveTop1 ==
    /\ norm_pc = "free_text"
    /\ algorithm = RETRIEVAL
    /\ \E top \in [Mentions(series) -> TopScores] :
        /\ candidates' = [m \in Mentions(series) |-> SubSeq(Retrieved(m, top[m]), 1, 1)]
        /\ all_results' = retrieve_top_1(series, candidates')
    /\ norm_pc' = "finalise"
    /\ UNCHANGED <<inputVars, classifyVars, xref_mapping, prefix, output, output_index>>
    /\ UNCHANGED <<alignVars, logVars, sessVars>>

\* RETRIEVAL_AND_CLASSIFICATION: results = _retrieve(series, self.dense_retriever, top_k=10)
Retrieve ==
    /\ norm_pc = "free_text"
    /\ algorithm = RETRIEVAL_AND_CLASSIFICATION
    /\ \E top \in [Mentions(series) -> TopScores] :
        candidates' = [m \in Mentions(series) |-> Retrieved(m, top[m])]
    /\ task' = [m \in 1..NumMentions |-> IF m \in Mentions(series) THEN "pending" ELSE "none"]
    /\ chunk_idx' = 1
    /\ norm_pc' = "classify"
    /\ UNCHANGED <<inputVars, attempt_number, llm_calls, failures, last_answer, result,
                   completion_order, all_results, xref_mapping, prefix, output, output_index>>
    /\ UNCHANGED <<alignVars, logVars, sessVars>>

\* raise NotImplementedError(f"Algorithm {self.algorithm} not implemented for free text")
RaiseNotImplemented ==
    /\ norm_pc = "free_text"
    /\ algorithm \notin {RETRIEVAL, RETRIEVAL_AND_CLASSIFICATION}
    /\ norm_pc' = "not_implemented"
    /\ UNCHANGED <<inputVars, classifyVars, candidates, all_results, xref_mapping, prefix,
                   output, output_index>>
    /\ UNCHANGED <<alignVars, logVars, sessVars>>

\* the series does not hold free text: the xref table is loaded, the prefix is
\* asked for when the table has prefixes, the series is joined to the table
XrefLookup ==
    /\ norm_pc = "xref"
    /\ \E table \in XrefTables :
        /\ xref_mapping' = table
        /\ IF get_available_curie_prefixes(table) # {}
           THEN \E response \in PrefixAnswers :
                    prefix' = get_curie_prefix_if_needed(get_available_curie_prefixes(table), response)
           ELSE prefix' = None
    /\ all_results' = xref_results(xref_mapping', series, prefix')
    /\ norm_pc' = "finalise_xref"
    /\ UNCHANGED <<inputVars, classifyVars, candidates, output, output_index>>
    /\ UNCHANGED <<alignVars, logVars, sessVars>>

\* asyncio.run(_classify_chunk(chunk)): a task is created for every mention of the chunk
DispatchChunk ==
    /\ norm_pc = "classify"
    /\ chunk_idx <= NumChunks(series)
    /\ \A m \in InChunk(series, chunk_idx) : task[m] = "pending"
    /\ task' = [m \in 1..NumMentions |->
                    IF m \in InChunk(series, chunk_idx) THEN "ready" ELSE task[m]]
    /\ UNCHANGED <<inputVars, candidates, attempt_number, llm_calls, failures, last_answer,
                   result, chunk_idx, completion_order, all_results, xref_mapping, prefix,
                   output, output_index, norm_pc>>
    /\ UNCHANGED <<alignVars, logVars, sessVars>>

\* an attempt of _classify_mention whose first entity has a score close to 1.0
ShortCircuit(m) ==
    /\ norm_pc = "classify"
    /\ task[m] = "ready"
    /\ isclose(candidates[m][1].score, ONE)
    /\ attempt_number' = [attempt_number EXCEPT ![m] = @ + 1]
    /\ result' = [result EXCEPT ![m] = candidates[m][1]]
    /\ task' = [task EXCEPT ![m] = "done"]
    /\ completion_order' = Append(completion_order, m)
    /\ UNCHANGED <<inputVars, candidates, llm_calls, failures, last_answer, chunk_idx,
                   all_results, xref_mapping, prefix, output, output_index, norm_pc>>
    /\ UNCHANGED <<alignVars, logVars, sessVars>>

\* an attempt of _classify_mention that awaits llm.ainvoke
CallLlm(m) ==
    /\ norm_pc = "classify"
    /\ task[m] = "ready"
    /\ ~isclose(candidates[m][1].score, ONE)
    /\ attempt_number' = [attempt_number EXCEPT ![m] = @ + 1]
    /\ llm_calls' = [llm_calls EXCEPT ![m] = @ + 1]
    /\ task' = [task EXCEPT ![m] = "calling"]
    /\ UNCHANGED <<inputVars, candidates, failures, last_answer, result, chunk_idx,
                   completion_order, all_results, xref_mapping, prefix, output,
                   output_index, norm_pc>>
    /\ UNCHANGED <<alignVars, logVars, sessVars>>

\* llm.ainvoke returns: the entity named by the answer, or the first entity
LlmReturns(m) ==
    /\ norm_pc = "classify"
    /\ task[m] = "calling"
    /\ \E response \in ClassifyAnswers :
        /\ last_answer' = [last_answer EXCEPT ![m] = response]
        /\ result' = [result EXCEPT ![m] = select_entity(candidates[m], response)]
    /\ task' = [task EXCEPT ![m] = "done"]
    /\ completion_order' = Append(completion_order, m)
    /\ UNCHANGED <<inputVars, candidates, attempt_number, llm_calls, failures, chunk_idx,
                   all_results, xref_mapping, prefix, output, output_index, norm_pc>>
    /\ UNCHANGED <<alignVars, logVars, sessVars>>

\* llm.ainvoke raises and tenacity starts another attempt after the wait
LlmRaisesRetry(m) ==
    /\ norm_pc = "classify"
    /\ task[m] = "calling"
    /\ ~stop_after_attempt(attempt_number[m])
    /\ failures' = [failures EXCEPT ![m] = @ + 1]
    /\ task' = [task EXCEPT ![m] = "ready"]
    /\ UNCHANGED <<inputVars, candidates, attempt_number, llm_calls, last_answer, result,
                   chunk_idx, completion_order, all_results, xref_mapping, prefix, output,
                   output_index, norm_pc>>
    /\ UNCHANGED <<alignVars, logVars, sessVars>>

\* llm.ainvoke raises in the last attempt: reraise=True, gather and asyncio.run
\* pass the error on, the other tasks of the chunk are cancelled, normalise raises
LlmRaisesLast(m) ==
    /\ norm_pc = "classify"
    /\ task[m] = "calling"
    /\ stop_after_attempt(attempt_number[m])
    /\ failures' = [failures EXCEPT ![m] = @ + 1]
    /\ task' = [k \in 1..NumMentions |->
                    IF k = m THEN "failed"
                    ELSE IF task[k] \in {"ready", "calling"} THEN "cancelled"
                    ELSE task[k]]
    /\ norm_pc' = "raised"
    /\ UNCHANGED <<inputVars, candidates, attempt_number, llm_calls, last_answer, result,
                   chunk_idx, completion_order, all_results, xref_mapping, prefix, output,
                   output_index>>
    /\ UNCHANGED <<alignVars, logVars, sessVars>>

\* gather returns: the rows of the chunk, in the order of its mentions
CollectChunk ==
    /\ norm_pc = "classify"
    /\ chunk_idx <= NumChunks(series)
    /\ \A m \in InChunk(series, chunk_idx) : task[m] = "done"
    /\ all_results' = all_results \o
            chunk_result(Chunk(series, chunk_idx), result, completion_order)
    /\ chunk_idx' = chunk_idx + 1
    /\ UNCHANGED <<inputVars, candidates, task, attempt_number, llm_calls, failures,
                   last_answer, result, completion_order, xref_mapping, prefix, output,
                   output_index, norm_pc>>
    /\ UNCHANGED <<alignVars, logVars, sessVars>>

\* the entity types of the normaliser, by name
etype_names == <<"Disease">>

\* utils.Mapping(id=..., mention=..., types=etype_names, name=..., score=...)
Mapping(row) ==
    [id |-> row.id, mention |-> row.mention, types |-> etype_names, name |-> row.name,
     score |-> row.score]

\* _log_mappings: one mapping operation holding a Mapping for every row of results
log_mappings(is_set, decs, results, column_name, mapping_type) ==
    log_column_alignment_op(is_set, decs, column_name,
        MappingOperation(mapping_type, [i \in 1..Len(results) |-> Mapping(results[i])]))

\* the results of the branch are complete
ReadyToFinalise ==
    \/ norm_pc = "classify" /\ chunk_idx > NumChunks(series)
    \/ norm_pc \in {"finalise", "finalise_xref"}

\* return _finalise_output(results, series, ...): the mappings are logged, the
\* ids are broadcast to the rows
Finalise ==
    /\ ReadyToFinalise
    /\ decisions' = log_mappings(node_is_set, decisions, all_results, series_name,
                        IF norm_pc = "finalise_xref" THEN "xref" ELSE "free_text")
    /\ output' = finalise_output(all_results, series, index).values
    /\ output_index' = finalise_output(all_results, series, index).index
    /\ norm_pc' = "returned"
    /\ UNCHANGED <<inputVars, classifyVars, candidates, all_results, xref_mapping, prefix,
                   node_is_set>>
    /\ UNCHANGED <<alignVars, sessVars>>

NextNorm ==
    \/ ReturnEmpty
    \/ IsFreeText
    \/ RetrieveTop1
    \/ Retrieve
    \/ RaiseNotImplemented
    \/ XrefLookup
    \/ DispatchChunk
    \/ \E m \in 1..NumMentions : ShortCircuit(m)
    \/ \E m \in 1..NumMentions : CallLlm(m)
    \/ \E m \in 1..NumMentions : LlmReturns(m)
    \/ \E m \in 1..NumMentions : LlmRaisesRetry(m)
    \/ \E m \in 1..NumMentions : LlmRaisesLast(m)
    \/ CollectChunk
    \/ Finalise

SpecNorm == InitNorm /\ [][NextNorm]_vars

-----------------------------------------------------------------------------
(* Properties of the classification, checked under SpecNorm                *)

\* no two rows of the series carry the same index label
UniqueIndex == \A r1, r2 \in 1..Len(index) : index[r1] = index[r2] => r1 = r2

\* C9: the model is called at most 5 times for a mention; an attempt that
\* raises is followed by another one while fewer than 5 were made, and the
\* answer of the first attempt that returns selects the entity; when the fifth
\* attempt raises, normalise raises: no series is returned, no mapping is
\* logged and the mention gets no entity in place of the answer
C9_RetryPolicy ==
    /\ \A m \in DOMAIN llm_calls :
        /\ llm_calls[m] <= 5
        /\ attempt_number[m] <= 5
        /\ failures[m] <= llm_calls[m]
        /\ (task[m] = "ready" /\ llm_calls[m] > 0) =>
                (failures[m] = llm_calls[m] /\ llm_calls[m] < 5)
        /\ (task[m] = "done" /\ llm_calls[m] > 0) =>
                /\ failures[m] = llm_calls[m] - 1
                /\ result[m] = select_entity(candidates[m], last_answer[m])
        /\ task[m] = "failed" =>
                /\ failures[m] = 5
                /\ llm_calls[m] = 5
                /\ result[m] = NoEntity
                /\ norm_pc = "raised"
    /\ norm_pc = "raised" =>
        /\ \E m \in DOMAIN task : task[m] = "failed"
        /\ output = <<>>
        /\ decisions = <<>>
        /\ all_results = <<>> \/ \A i \in 1..Len(all_results) : task[all_results[i].mention] = "done"

C9_Witness ==
    /\ norm_pc = "raised"
    /\ node_is_set
    /\ \E m \in DOMAIN task : task[m] = "failed" /\ failures[m] = 5
    /\ \E m \in DOMAIN task : task[m] = "done" /\ failures[m] > 0

\* C10: a mention whose best candidate has the score 1.0 is never sent to the
\* model, and that candidate is its entity, in the returned rows too
C10_ExactMatchShortCircuit ==
    \A m \in DOMAIN candidates :
        (algorithm = RETRIEVAL_AND_CLASSIFICATION /\ candidates[m][1].score = ONE) =>
            /\ llm_calls[m] = 0
            /\ failures[m] = 0
            /\ task[m] \in {"pending", "ready", "done", "cancelled"}
            /\ task[m] = "done" => result[m] = candidates[m][1]
            /\ norm_pc = "returned" =>
                /\ \E i \in 1..Len(all_results) :
                        all_results[i] = ResultRow(m, candidates[m][1])
                /\ UniqueIndex =>
                    \A r \in 1..Len(series) :
                        series[r] = m => output[r] = candidates[m][1].id

C10_Witness ==
    /\ norm_pc = "returned"
    /\ \E m \in DOMAIN candidates :
        /\ candidates[m][1].score = ONE
        /\ attempt_number[m] = 1
        /\ result[m] = candidates[m][1]
    /\ \E m \in DOMAIN candidates : llm_calls[m] > 0

\* the names of the candidates retrieved for a mention
CandidateNames(m) == {candidates[m][i].name : i \in 1..Len(candidates[m])}

\* the model answered for the mention and the answer names none of its candidates
MalformedAnswer(m) ==
    /\ task[m] = "done"
    /\ llm_calls[m] > 0
    /\ last_answer[m] \notin CandidateNames(m)

\* C11: an answer that is not the name of a candidate of the mention gives the
\* mention its best candidate, starts no further attempt (every call but the
\* answered one had raised) and does not make normalise raise: normalise raises
\* only with a mention whose fifth call raised
C11_MalformedAnswerFallsBack ==
    /\ \A m \in DOMAIN candidates :
        MalformedAnswer(m) =>
            /\ result[m] = candidates[m][1]
            /\ llm_calls[m] = failures[m] + 1
            /\ attempt_number[m] = llm_calls[m]
            /\ (norm_pc = "returned" /\ UniqueIndex) =>
                \A r \in 1..Len(series) : series[r] = m => output[r] = candidates[m][1].id
    /\ norm_pc = "raised" =>
        \E m \in DOMAIN candidates : task[m] = "failed" /\ ~MalformedAnswer(m)

C11_Witness ==
    /\ norm_pc = "returned"
    /\ \E m \in DOMAIN candidates :
        /\ MalformedAnswer(m)
        /\ failures[m] = 0
        /\ \E r \in 1..Len(series) : series[r] = m /\ output[r] = EntityIds(m)[1]

\* the mentions whose call of llm.ainvoke is outstanding
Outstanding == {m \in DOMAIN task : task[m] = "calling"}

\* the mentions of the chunks after chunk k
LaterChunks(k) == UNION {InChunk(series, j) : j \in (k + 1)..NumChunks(series)}

\* the mentions of the chunks before chunk k
EarlierChunks(k) == UNION {InChunk(series, j) : j \in 1..(k - 1)}

\* C12: a chunk holds at most ChunkSize mentions; the mentions being classified
\* all belong to the current chunk; no mention of a later chunk has started
\* while the current one is unfinished, and the chunks before it are complete,
\* retries included; so at most ChunkSize calls are outstanding at any moment
C12_BatchedClassification ==
    (norm_pc \in {"classify", "raised", "returned"} /\ chunk_idx >= 1) =>
        /\ \A k \in 1..NumChunks(series) : Len(Chunk(series, k)) <= ChunkSize
        /\ Cardinality(Outstanding) <= ChunkSize
        /\ \A m \in DOMAIN task :
            task[m] \in {"ready", "calling"} => m \in InChunk(series, chunk_idx)
        /\ \A m \in LaterChunks(chunk_idx) :
            /\ task[m] = "pending"
            /\ attempt_number[m] = 0
            /\ llm_calls[m] = 0
        /\ \A m \in EarlierChunks(chunk_idx) : task[m] = "done"
        /\ (chunk_idx <= NumChunks(series)
                /\ \E m \in InChunk(series, chunk_idx) : task[m] = "ready") =>
            \A m \in InChunk(series, chunk_idx) : task[m] # "pending"

C12_Witness ==
    /\ norm_pc = "classify"
    /\ chunk_idx = 2
    /\ Cardinality(InChunk(series, 1)) = ChunkSize
    /\ \A m \in InChunk(series, 1) : failures[m] > 0
    /\ \E m \in InChunk(series, 2) : task[m] = "calling"

\* the mapping operations logged for the column of the series
MappingOps ==
    SelectSeq(OperationsOf(decisions, series_name), LAMBDA o : o.op = "mapping")

\* the mentions of the logged Mappings, in the order they are logged
LoggedMentions ==
    IF MappingOps = <<>> THEN <<>>
    ELSE [i \in 1..Len(MappingOps[1].mappings) |-> MappingOps[1].mappings[i].mention]

\* C13: after retrieval and classification (the only branch that works in
\* chunks), the Mappings logged for the column
\* are those of the distinct mentions in the order of the grouped input (sorted
\* by mention, one chunk after the other), each with the entity its task
\* returned, whatever the order in which the tasks completed
C13_MappingOrderIsMentionOrder ==
    (chunk_idx >= 1 /\ norm_pc = "returned" /\ node_is_set) =>
        /\ algorithm = RETRIEVAL_AND_CLASSIFICATION
        /\ Len(MappingOps) = 1
        /\ LoggedMentions = SortedSeq(Mentions(series))
        /\ \A i \in 1..Len(LoggedMentions) :
            MappingOps[1].mappings[i] = Mapping(ResultRow(LoggedMentions[i], result[LoggedMentions[i]]))

\* two tasks of one chunk completed in the reverse of the order of their mentions
C13_Witness ==
    /\ chunk_idx >= 1
    /\ norm_pc = "returned"
    /\ node_is_set
    /\ Len(completion_order) >= 2
    /\ completion_order[1] > completion_order[2]
    /\ {completion_order[1], completion_order[2]} = InChunk(series, 1)
    /\ Len(LoggedMentions) = Len(completion_order)

\* normalise returned through the xref branch
XrefReturned == norm_pc = "returned" /\ prefix # NoPrefixCall

\* every xref of the loaded table carries the prefix PFX
SinglePrefixPFX == get_available_curie_prefixes(xref_mapping) = {"PFX"}

\* the column holds identifiers without a prefix
Unprefixed == \A m \in Mentions(series) : curie_prefix(MentionText(m)) = None

\* the rows of the table whose xref is PFX: followed by the identifier
Owners(m) == {i \in 1..Len(xref_mapping) : xref_mapping[i].xrefs = "PFX:" \o MentionText(m)}

\* the label of row r is carried by no other row
OwnLabel(r) == \A q \in 1..Len(index) : index[q] = index[r] => q = r

\* the identifiers of the column are resolved through the xrefs with prefix PFX
ResolvedThroughPFX ==
    /\ \A i \in 1..Len(all_results) :
        /\ all_results[i].score = ONE
        /\ \E o \in Owners(all_results[i].mention) :
            /\ xref_mapping[o].id = all_results[i].id
            /\ xref_mapping[o].name = all_results[i].name
    /\ \A m \in Mentions(series) :
        Owners(m) # {} => \E i \in 1..Len(all_results) : all_results[i].mention = m
    /\ \A r \in 1..Len(series) :
        OwnLabel(r) =>
            output[r] = IF series[r] = NA \/ Owners(series[r]) = {} THEN "<NA>"
                        ELSE xref_mapping[FirstOf(Owners(series[r]))].id
    /\ node_is_set =>
        /\ Len(MappingOps) = 1
        /\ MappingOps[1].type = "xref"
        /\ MappingOps[1].mappings = [i \in 1..Len(all_results) |-> Mapping(all_results[i])]

C15_MappingLoggedForEveryResolvedMention ==
    (norm_pc = "returned" /\ node_is_set /\ Mentions(series) # {}) =>
        /\ Len(MappingOps) = 1
        /\ \A r \in 1..Len(series) :
            (series[r] # NA /\ output[r] # "<NA>") =>
                \E i \in 1..Len(MappingOps[1].mappings) :
                    MappingOps[1].mappings[i].mention = series[r]

\* the id resolved for the mention of row r: the id of the first row of the
\* results that carries the mention, absent when there is none
ResolvedId(r) ==
    IF MergedRow(all_results, series, r) = 0 THEN "<NA>"
    ELSE all_results[MergedRow(all_results, series, r)].id

\* normalise returned after looking the mentions up
LookedUp == norm_pc = "returned" /\ Mentions(series) # {}

\* C16: the series returned has the length and the index labels of the series
\* given, in the same order, and every row holds the id resolved for the
\* mention of that row, absent when the mention was not resolved
C16_OutputAlignedWithInput ==
    norm_pc = "returned" =>
        /\ Len(output) = Len(series)
        /\ output_index = index
        /\ LookedUp => \A r \in 1..Len(series) : output[r] = ResolvedId(r)

-----------------------------------------------------------------------------
(* Pipeline nodes: logging_session and, inside it, the bodies of the       *)
(* retrieve task and of the process task                                   *)

UNKNOWN == "unknown"

RUNNING == "running"

SUCCESS == "success"

FAILED == "failed"

SKIPPED == "skipped"

TerminalStatuses == {SUCCESS, FAILED, SKIPPED}

\* what leaves the with block: nothing, the skip exception of the orchestrator,
\* or any other Exception
NoException == ""

AirflowSkipException == "AirflowSkipException"

OtherException == "Exception"

URL_RETRIEVED == "url_retrieved"

FILE_COPIED == "file_copied"

FILE_FORMAT_IDENTIFIED == "file_format_identified"

SCHEMA_IDENTIFIED == "schema_identified"

UNABLE_TO_PROCESS == "unable_to_process"

\* Decision(type, content) with a str content
Decision(type, content) == [type |-> type, content |-> content]

\* LoggingSession.log_status
log_status(is_set, current, new) ==
    IF ~is_set THEN current ELSE new

\* the except / else clauses of logging_session
exit_status_always_success(exc) == SUCCESS

exit_status(exc) ==
    IF exc = NoException THEN SUCCESS
    ELSE IF exc = AirflowSkipException THEN SKIPPED
    ELSE FAILED

\* session.node.model_dump_json()
model_dump_json_without_decisions(id, node_status, decs) ==
    [id |-> id, status |-> node_status, decisions |-> <<>>]

model_dump_json(id, node_status, decs) ==
    [id |-> id, status |-> node_status, decisions |-> decs]

\* path / f"{session.node.id}.json"
record_path(dir, id) == dir \o "/" \o id \o ".json"

\* Path.write_text: the file is created or replaced
write_text(files, path, text) ==
    {f \in files : f.path # path} \cup {[path |-> path, record |-> text]}

\* the finally clause of logging_session
finalise_record(files, dir, id, node_status, decs) ==
    IF dir # None
    THEN write_text(files, record_path(dir, id), model_dump_json(id, node_status, decs))
    ELSE files

\* Path(filename).suffix
DotPositions(name) == {i \in 1..Len(name) : CharAt(name, i) = "."}

suffix(name) ==
    IF DotPositions(name) = {} THEN ""
    ELSE LET i == CHOOSE p \in DotPositions(name) : \A q \in DotPositions(name) : q <= p
         IN  IF 1 < i /\ i < Len(name) THEN SubSeq(name, i, Len(name)) ELSE ""

\* Path(filename).with_suffix("")
with_suffix_empty(name) ==
    SubSeq(name, 1, Len(name) - Len(suffix(name)))

\* SupportedFormats.as_suffix_lookup()
as_suffix_lookup ==
    (".csv" :> "csv") @@ (".tsv" :> "tsv") @@ (".txt" :> "wsv") @@
    (".parquet" :> "parquet") @@ (".pq" :> "parquet") @@ (".vcf" :> "vcf") @@
    (".xls" :> "excel") @@ (".xlsx" :> "excel")

\* get_format_from_suffix(filename, on_unsupported="ignore")
get_format_from_suffix(name) ==
    LET sfx == IF suffix(name) = ".gz" THEN suffix(with_suffix_empty(name))
               ELSE suffix(name)
    IN  IF sfx \in DOMAIN as_suffix_lookup THEN as_suffix_lookup[sfx] ELSE None

Filenames == {"gwas.csv", "gwas.tsv.gz", "readme.md", "archive.gz"}

\* the names of the schemas given to identify_target_schema
TargetSchemaNames == {"GWAS", "RNA-seq", "Other"}

\* what the model may answer to the prompt of identify_target_schema
SchemaAnswers == {"GWAS", " other ", "I am unsure"}

\* {schema.name.lower(): schema for schema in schemas}.get(response.strip().lower())
identify_target_schema(response) ==
    LET key == LowerStr(strip(response, Whitespace), 1)
        hits == {n \in TargetSchemaNames : LowerStr(n, 1) = key}
    IN  IF hits = {} THEN None ELSE CHOOSE n \in hits : TRUE

\* what align_dataframe_to_schema did inside the session: the alignments it logged
\* and the error it raised, "" when it returned
AlignOutcome(logged, error) == [logged |-> logged, error |-> error]

AlignOutcomes ==
    { AlignOutcome(<<ColumnAlignment("p_value", <<RenameOperation("pval", "p_value")>>)>>, ""),
      AlignOutcome(<<ColumnAlignment("p_value", <<RenameOperation("pval", "p_value")>>)>>,
                   "Column trait_id is required but has no default value"),
      AlignOutcome(<<>>, "inference rule raised"),
      AlignOutcome(<<ColumnAlignment("p_value", <<RenameOperation("pval", "p_value")>>),
                     ColumnAlignment("dataset_id", <<SetValueOperation(NA)>>)>>,
                   "SchemaError") }

\* the errors raised inside the try block of process, by the statement that raises
ProcessFailures(at) ==
    IF at = "read" THEN {AlignOutcome(<<>>, "ParserError")}
    ELSE IF at = "identify"
    THEN {AlignOutcome(<<>>, "'NoneType' object has no attribute 'name'") :
              response \in {r \in SchemaAnswers : identify_target_schema(r) = None}}
    ELSE IF at = "align" THEN {o \in AlignOutcomes : o.error # ""}
    ELSE IF at = "write" THEN {AlignOutcome(<<>>, "OSError")}
    ELSE {}

ProcessNodeIds == {"process_0", "process_1"}

RetrieveNodeIds == {"retrieve_and_extract.retrieve_0"}

LogsDir == "logs"

\* a record left under the logs directory by an earlier try of the task
StaleFiles ==
    {[path |-> record_path(LogsDir, "process_0"),
      record |-> model_dump_json("process_0", FAILED, <<>>)]}

AlignIdle ==
    /\ schema = <<>>
    /\ source_columns = <<>>
    /\ dataframe = <<>>
    /\ context_available = FALSE
    /\ column_name_mapping = <<>>
    /\ missing_columns = <<>>
    /\ llm_response = <<>>
    /\ col_idx = 1
    /\ set_iteration = <<>>
    /\ sorted_columns = SortResult("", <<>>)
    /\ pc = "idle"
    /\ outcome = "running"

InitSession ==
    /\ AlignIdle
    /\ NormIdle
    /\ node_is_set = FALSE
    /\ decisions = <<>>
    /\ node_id \in ProcessNodeIds \cup RetrieveNodeIds
    /\ filename \in IF node_id \in ProcessNodeIds THEN Filenames ELSE {""}
    /\ output_dir \in {None, LogsDir}
    /\ session \in {"none", "outer"}
    /\ previous_session = "none"
    /\ persisted \in {{}, StaleFiles}
    /\ status = UNKNOWN
    /\ status_log = <<>>
    /\ raised = NoException
    /\ output_written = FALSE
    /\ sess_pc = "idle"
    /\ body_pc = "idle"
    /\ nodes = <<>>
    /\ frames = <<>>
    /\ calls = 0

sessInputs == <<output_dir, node_id, filename, nodes, frames, calls>>

\* logging_session up to the yield
EnterSession ==
    /\ sess_pc = "idle"
    /\ previous_session' = session
    /\ session' = node_id
    /\ node_is_set' = TRUE
    /\ decisions' = <<>>
    /\ status' = log_status(TRUE, status, RUNNING)
    /\ status_log' = Append(status_log, status')
    /\ sess_pc' = "body"
    /\ body_pc' = IF node_id \in ProcessNodeIds THEN "format" ELSE "retrieve"
    /\ UNCHANGED <<sessInputs, persisted, raised, output_written>>
    /\ UNCHANGED <<alignVars, normVars>>

\* the retrieve task: the Decision is logged, the file is copied or downloaded,
\* return filename leaves the with block
RetrieveReturns ==
    /\ sess_pc = "body"
    /\ body_pc = "retrieve"
    /\ \E type \in {FILE_COPIED, URL_RETRIEVED} :
           decisions' = log_decision(node_is_set, decisions, Decision(type, "gwas.csv"))
    /\ raised' = NoException
    /\ body_pc' = "done"
    /\ sess_pc' = "exit"
    /\ UNCHANGED <<sessInputs, session, previous_session, status, status_log, persisted,
                   output_written, node_is_set>>
    /\ UNCHANGED <<alignVars, normVars>>

\* the retrieve task: shutil.copy or urlretrieve raises
RetrieveRaises ==
    /\ sess_pc = "body"
    /\ body_pc = "retrieve"
    /\ \E type \in {FILE_COPIED, URL_RETRIEVED} :
           decisions' = log_decision(node_is_set, decisions, Decision(type, "gwas.csv"))
    /\ raised' = OtherException
    /\ body_pc' = "raised"
    /\ sess_pc' = "exit"
    /\ UNCHANGED <<sessInputs, session, previous_session, status, status_log, persisted,
                   output_written, node_is_set>>
    /\ UNCHANGED <<alignVars, normVars>>

\* process: if fmt is None: raise AirflowSkipException
UnsupportedFormat ==
    /\ sess_pc = "body"
    /\ body_pc = "format"
    /\ get_format_from_suffix(filename) = None
    /\ raised' = AirflowSkipException
    /\ body_pc' = "raised"
    /\ sess_pc' = "exit"
    /\ UNCHANGED <<sessInputs, session, previous_session, status, status_log, persisted,
                   output_written>>
    /\ UNCHANGED <<alignVars, logVars, normVars>>

\* process: the format is logged
FormatIdentified ==
    /\ sess_pc = "body"
    /\ body_pc = "format"
    /\ get_format_from_suffix(filename) # None
    /\ decisions' = log_decision(node_is_set, decisions,
                                 Decision(FILE_FORMAT_IDENTIFIED,
                                          get_format_from_suffix(filename)))
    /\ body_pc' = "read"
    /\ UNCHANGED <<sessInputs, session, previous_session, status, status_log, persisted,
                   raised, output_written, sess_pc, node_is_set>>
    /\ UNCHANGED <<alignVars, normVars>>

\* process: dataframe = core_io.read(filename)
ReadFile ==
    /\ sess_pc = "body"
    /\ body_pc = "read"
    /\ body_pc' = "identify"
    /\ UNCHANGED <<sessInputs, session, previous_session, status, status_log, persisted,
                   raised, output_written, sess_pc>>
    /\ UNCHANGED <<alignVars, logVars, normVars>>

\* process: the schema is identified and logged
IdentifySchema ==
    /\ sess_pc = "body"
    /\ body_pc = "identify"
    /\ \E response \in SchemaAnswers :
           /\ identify_target_schema(response) # None
           /\ decisions' = log_decision(node_is_set, decisions,
                                        Decision(SCHEMA_IDENTIFIED,
                                                 identify_target_schema(response)))
    /\ body_pc' = "align"
    /\ UNCHANGED <<sessInputs, session, previous_session, status, status_log, persisted,
                   raised, output_written, sess_pc, node_is_set>>
    /\ UNCHANGED <<alignVars, normVars>>

\* process: align_dataframe_to_schema returns
AlignDataframe ==
    /\ sess_pc = "body"
    /\ body_pc = "align"
    /\ \E o \in AlignOutcomes :
           /\ o.error = ""
           /\ decisions' = decisions \o o.logged
    /\ body_pc' = "write"
    /\ UNCHANGED <<sessInputs, session, previous_session, status, status_log, persisted,
                   raised, output_written, sess_pc, node_is_set>>
    /\ UNCHANGED <<alignVars, normVars>>

\* process: result.to_parquet returns, the with block ends
WriteParquet ==
    /\ sess_pc = "body"
    /\ body_pc = "write"
    /\ output_written' = TRUE
    /\ raised' = NoException
    /\ body_pc' = "done"
    /\ sess_pc' = "exit"
    /\ UNCHANGED <<sessInputs, session, previous_session, status, status_log, persisted>>
    /\ UNCHANGED <<alignVars, logVars, normVars>>

\* process: a statement of the try block raises; except Exception logs the
\* error and raises AirflowSkipException
UnableToProcess ==
    /\ sess_pc = "body"
    /\ \E o \in ProcessFailures(body_pc) :
           decisions' = log_decision(node_is_set, decisions \o o.logged,
                                     Decision(UNABLE_TO_PROCESS, o.error))
    /\ raised' = AirflowSkipException
    /\ body_pc' = "raised"
    /\ sess_pc' = "exit"
    /\ UNCHANGED <<sessInputs, session, previous_session, status, status_log, persisted,
                   output_written, node_is_set>>
    /\ UNCHANGED <<alignVars, normVars>>

\* logging_session after the yield: except / else set the status, finally writes
\* the record and restores LoggingSession._session; the exception is raised again
ExitSession ==
    /\ sess_pc = "exit"
    /\ status' = log_status(node_is_set, status, exit_status(raised))
    /\ status_log' = Append(status_log, status')
    /\ persisted' = finalise_record(persisted, output_dir, node_id, status', decisions)
    /\ session' = previous_session
    /\ sess_pc' = "exited"
    /\ UNCHANGED <<sessInputs, previous_session, raised, output_written, body_pc>>
    /\ UNCHANGED <<alignVars, logVars, normVars>>

NextSession ==
    \/ EnterSession
    \/ RetrieveReturns
    \/ RetrieveRaises
    \/ UnsupportedFormat
    \/ FormatIdentified
    \/ ReadFile
    \/ IdentifySchema
    \/ AlignDataframe
    \/ WriteParquet
    \/ UnableToProcess
    \/ ExitSession

SpecSession == InitSession /\ [][NextSession]_vars

-----------------------------------------------------------------------------
(* Claims about the pipeline node                                          *)

NodeRecordWritten ==
    \E f \in persisted :
        /\ f.path = record_path(LogsDir, node_id)
        /\ f.record.id = node_id
        /\ f.record.status = status
        /\ f.record.status \in TerminalStatuses
        /\ f.record.decisions = decisions

ReasonsOnRecord ==
    {d \in UNION {Range(f.record.decisions) :
                      f \in {g \in persisted : g.path = record_path(LogsDir, node_id)}} :
         d.type = UNABLE_TO_PROCESS}

\* C19: a file given to the process step that ends without output has, in the
\* persisted record of its node, a Decision recording the reason, and the step
\* ends as skipped, not failed.
C19_NoFileDroppedWithoutLogEntry ==
    (/\ sess_pc = "exited"
     /\ node_id \in ProcessNodeIds
     /\ output_dir = LogsDir
     /\ ~output_written)
        => /\ status = SKIPPED
           /\ ReasonsOnRecord # {}

-----------------------------------------------------------------------------
(* The edges of the scheduler graph (checked under SpecSched)              *)

\* every upstream column of the rule is outside the missing set
AllUpstreamAvailable(inference) ==
    \A dependency \in Range(inference.upstream_columns) :
        dependency \notin Range(missing_columns)

\* the first upstream column of the rule that is in the missing set
FirstMissingUpstream(inference) ==
    inference.upstream_columns[
        CHOOSE k \in 1..Len(inference.upstream_columns) :
            /\ inference.upstream_columns[k] \in Range(missing_columns)
            /\ \A l \in 1..(k - 1) :
                   inference.upstream_columns[l] \notin Range(missing_columns)]

\* C20: a rule contributes the edge column -> AVAILABLE only if it is of the
\* extracted kind with context available or every upstream column of it is
\* outside the missing set; otherwise it contributes exactly one edge, to its
\* first upstream column in the missing set, and no edge to AVAILABLE.
C20_EdgesOfARule ==
    pc = "sorted" =>
        \A i \in 1..Len(schema) :
            \A j \in 1..Len(schema[i].column_inferences) :
                LET column == schema[i]
                    inference == column.column_inferences[j]
                    edges == RuleEdges(column, inference, Range(missing_columns),
                                       context_available)
                    met == \/ inference.type = EXTRACTED /\ context_available
                           \/ AllUpstreamAvailable(inference)
                IN  /\ <<column.name, available_node>> \in edges => met
                    /\ ~met => edges = {<<column.name, FirstMissingUpstream(inference)>>}

-----------------------------------------------------------------------------
(* The alias step and the matcher (checked under Spec)                     *)

\* position k holds the first alias of the column, in declaration order, that is
\* the name of a source column
IsFirstAliasHit(column, k) ==
    /\ k \in 1..Len(column.aliases)
    /\ \E i \in 1..Len(source_columns) : source_columns[i] = column.aliases[k]
    /\ \A l \in 1..(k - 1) :
           \A i \in 1..Len(source_columns) : source_columns[i] # column.aliases[l]

HasAliasHit(column) == \E k \in 1..Len(column.aliases) : IsFirstAliasHit(column, k)

\* C21: the schema columns are taken in schema order; for a column with an alias
\* that is a source column name, the first such alias in declaration order is
\* chosen, a rename from it to the schema column is recorded and the matcher is
\* not asked; the matcher is asked, at most once per column, only for columns
\* none of whose aliases is a source column name.
C21_AliasStep ==
    [][/\ pc # "match" => llm_response' = llm_response
       /\ pc = "match" =>
            LET column == schema[col_idx]
            IN  /\ pc' = "match" => col_idx' = col_idx + 1
                /\ pc' # "match" => col_idx = Len(schema)
                /\ \A c \in ColumnNames(schema) \ {column.name} :
                       llm_response'[c] = llm_response[c]
                /\ llm_response[column.name] = NoCall
                /\ IF HasAliasHit(column)
                   THEN \E k \in 1..Len(column.aliases) :
                          /\ IsFirstAliasHit(column, k)
                          /\ llm_response'[column.name] = NoCall
                          /\ column.aliases[k] \in DOMAIN column_name_mapping'
                          /\ column_name_mapping'[column.aliases[k]] = column.name
                          /\ missing_columns' = missing_columns
                          /\ node_is_set =>
                               OperationsOf(decisions', column.name) =
                                   Append(OperationsOf(decisions, column.name),
                                          RenameOperation(column.aliases[k], column.name))
                   ELSE llm_response'[column.name] # NoCall]_vars

\* both N and n are source columns: N, declared first, was chosen for num_samples
\* without a question to the matcher, and the matcher was asked for another column
C21_Witness ==
    /\ pc = "rename"
    /\ node_is_set
    /\ {"N", "n"} \subseteq Range(source_columns)
    /\ OperationsOf(decisions, "num_samples") = <<RenameOperation("N", "num_samples")>>
    /\ ~Asked("num_samples")
    /\ \E c \in ColumnNames(schema) : Asked(c)

\* the first operation recorded for schema column c is the rename from origin
RenamedFrom(c, origin) ==
    /\ c \notin Range(missing_columns)
    /\ node_is_set =>
         /\ Len(OperationsOf(decisions, c)) >= 1
         /\ OperationsOf(decisions, c)[1] = RenameOperation(origin, c)

\* C22 (as stated): a non-empty answer of the matcher that is the name of a column
\* of the source dataframe is accepted: a rename from that source column to the
\* schema column is recorded and the schema column is not treated as missing.
C22_AnswerNamingASourceColumnAccepted ==
    \A c \in ColumnNames(schema) :
        (/\ Asked(c)
         /\ llm_response[c] # ""
         /\ llm_response[c] \in Range(source_columns))
            => RenamedFrom(c, llm_response[c])

\* the source columns whose snake-cased name is the answer given for c
SnakeCaseMatches(c) ==
    {i \in 1..Len(source_columns) : SnakeCased[source_columns[i]] = llm_response[c]}

\* C22 (amended): an answer of the matcher that is the snake-cased name of a
\* source column is accepted: a rename to the schema column is recorded from the
\* last source column with that snake-cased name, and the schema column is not
\* treated as missing.
C22_AnswerSnakeCasingASourceColumnAccepted ==
    \A c \in ColumnNames(schema) :
        (Asked(c) /\ SnakeCaseMatches(c) # {})
            => \E i \in SnakeCaseMatches(c) :
                 /\ \A j \in SnakeCaseMatches(c) : j <= i
                 /\ RenamedFrom(c, source_columns[i])

\* the matcher answered n for a column while N and n are both source columns, and
\* the rename from n was recorded
C22_Witness ==
    /\ node_is_set
    /\ {"N", "n"} \subseteq Range(source_columns)
    /\ \E c \in ColumnNames(schema) :
         /\ llm_response[c] = "n"
         /\ OperationsOf(decisions, c) = <<RenameOperation("n", c)>>

-----------------------------------------------------------------------------
(* Rule selection for the missing columns (checked under Spec)             *)

\* rule j is the first rule of the column, in declaration order, whose guard
\* holds on the dataframe as it stands
IsFirstRuleThatHolds(column, j) ==
    /\ j \in 1..Len(column.column_inferences)
    /\ condition(column.column_inferences[j], dataframe, context_available)
    /\ \A l \in 1..(j - 1) :
           ~condition(column.column_inferences[l], dataframe, context_available)

\* C23: the missing columns are taken in scheduler order; the guards of the rules
\* of a column are evaluated in declaration order on the dataframe as it stands
\* (renames applied, earlier columns inferred or defaulted); the first rule whose
\* guard holds runs, its result is assigned to the column, one inference
\* operation with the kind of that rule is recorded, and no later rule of the
\* column runs.
C23_FirstSatisfiedRuleRuns ==
    [][pc = "infer" =>
        LET column == ColumnOf(schema, sorted_columns.columns[col_idx])
        IN  \A j \in 1..Len(column.column_inferences) :
              IsFirstRuleThatHolds(column, j) =>
                \/ /\ pc' = "done"
                   /\ ExecResult(outcome', <<>>)
                          \in execute(column.column_inferences[j], dataframe)
                   /\ outcome' # ""
                   /\ dataframe' = dataframe
                   /\ decisions' = decisions
                \/ /\ pc' \in {"infer", "validate"}
                   /\ pc' = "infer" => col_idx' = col_idx + 1
                   /\ pc' = "validate" => col_idx = Len(sorted_columns.columns)
                   /\ outcome' = "running"
                   /\ Cardinality(DfIndexes(dataframe', column.name)) = 1
                   /\ ExecResult("", DfGet(dataframe', column.name))
                          \in execute(column.column_inferences[j], dataframe)
                   /\ \A i \in 1..Len(dataframe) :
                          dataframe[i].name # column.name => dataframe'[i] = dataframe[i]
                   /\ node_is_set =>
                        /\ OperationsOf(decisions', column.name) =
                             Append(OperationsOf(decisions, column.name),
                                    InferenceOperation(column.column_inferences[j].type))
                        /\ \A c \in ColumnNames(schema) \ {column.name} :
                             OperationsOf(decisions', c) = OperationsOf(decisions, c)]_vars

\* num_controls was derived from num_samples, renamed from N, and num_cases,
\* extracted from context earlier in the order; the first rule of num_cases,
\* whose guard did not hold, did not run
C23_Witness ==
    /\ node_is_set
    /\ outcome = "returned"
    /\ source_columns = <<"N">>
    /\ OperationsOf(decisions, "num_cases") = <<InferenceOperation(EXTRACTED)>>
    /\ OperationsOf(decisions, "num_controls") = <<InferenceOperation(DERIVED)>>
    /\ \A r \in 1..NumRows :
           DfGet(dataframe, "num_controls")[r] =
               Sub(DfGet(dataframe, "num_samples")[r], DfGet(dataframe, "num_cases")[r])

\* the text looked up in the xref table for mention m
LookedUpXref(m) ==
    IF prefix = None THEN MentionText(m) ELSE prefix \o ":" \o MentionText(m)

\* the rows of the xref table whose xref is the text looked up for mention m
MatchingEntities(m) ==
    {i \in 1..Len(xref_mapping) : xref_mapping[i].xrefs = LookedUpXref(m)}

\* C24: in the identifier path, every row holding a value that matches the xrefs
\* of several entities receives the id of the first matching entity in the order
\* of the xref table, rows holding the same value receive the same id, and the
\* output has one id for every input row.
C24_XrefCollisionKeepsFirst ==
    XrefReturned =>
        /\ Len(output) = Len(series)
        /\ \A r \in 1..Len(series) :
             (series[r] # NA /\ Cardinality(MatchingEntities(series[r])) >= 2) =>
                 /\ output[r] = xref_mapping[CHOOSE i \in MatchingEntities(series[r]) :
                                    \A j \in MatchingEntities(series[r]) : i <= j].id
                 /\ \A q \in 1..Len(series) : series[q] = series[r] => output[q] = output[r]

-----------------------------------------------------------------------------
(* Nested logging sessions and the calls that log into the current one     *)

MaxSessions == 2

MaxCalls == 3

\* LoggingSession._session is None
NoSession == "none"

\* the ids of the nodes, in the order the sessions are entered
LogNodeIds == <<"retrieve_urls", "retrieve_and_extract.retrieve_0", "process_0", "process_1">>

LoggedNode(id) == [id |-> id, status |-> UNKNOWN, decisions |-> <<>>]

\* the position in nodes of the node with the id
NodeIndex(id) == CHOOSE k \in 1..Len(nodes) : nodes[k].id = id

\* the locals of a logging_session call
Frame(sess, previous) == [session |-> sess, previous_session |-> previous]

\* finally: LoggingSession._session = None, the session at entry forgotten
restored_session_none(frame) == NoSession

\* finally: LoggingSession._session = previous_session
restored_session(frame) == frame.previous_session

\* LoggingSession.get_session().node_is_set: cls._session or LoggingSession()
get_session_node_is_set(current) == current # NoSession

\* Decisions with a str content the tasks log
StrDecisions ==
    {Decision(FILE_FORMAT_IDENTIFIED, "csv"), Decision(SCHEMA_IDENTIFIED, "GWAS")}

LoggedColumns == {"p_value", "trait_id"}

LoggedOperations == {RenameOperation("pval", "p_value"), InferenceOperation(DERIVED)}

InitLog ==
    /\ AlignIdle
    /\ NormIdle
    /\ node_is_set = FALSE
    /\ decisions = <<>>
    /\ session = NoSession
    /\ previous_session = NoSession
    /\ output_dir = None
    /\ status = UNKNOWN
    /\ status_log = <<>>
    /\ persisted = {}
    /\ raised = NoException
    /\ sess_pc = "idle"
    /\ body_pc = "idle"
    /\ node_id = ""
    /\ filename = ""
    /\ output_written = FALSE
    /\ nodes = <<>>
    /\ frames = <<>>
    /\ calls = 0

logIdle == <<previous_session, output_dir, status, status_log, persisted, sess_pc,
             body_pc, node_id, filename, output_written>>

\* with logging_session(node): up to the yield
EnterNested ==
    /\ Len(nodes) < MaxSessions
    /\ LET id == LogNodeIds[Len(nodes) + 1]
       IN  /\ nodes' = Append(nodes, [LoggedNode(id) EXCEPT
                                         !.status = log_status(TRUE, @, RUNNING)])
           /\ frames' = Append(frames, Frame(id, session))
           /\ session' = id
    /\ raised' = NoException
    /\ UNCHANGED <<calls, logIdle>>
    /\ UNCHANGED <<alignVars, logVars, normVars>>

\* the innermost with block ends: except / else set the status, finally restores
\* LoggingSession._session
ExitNested ==
    /\ frames # <<>>
    /\ \E exc \in {NoException, AirflowSkipException, OtherException} :
        LET frame == frames[Len(frames)]
            k == NodeIndex(frame.session)
        IN  /\ nodes' = [nodes EXCEPT ![k].status = log_status(TRUE, @, exit_status(exc))]
            /\ session' = restored_session(frame)
            /\ frames' = SubSeq(frames, 1, Len(frames) - 1)
            /\ raised' = exc
    /\ UNCHANGED <<calls, logIdle>>
    /\ UNCHANGED <<alignVars, logVars, normVars>>

\* the decisions of the node of the current session after a call logged into it
LoggedInto(current, new_decisions) ==
    IF get_session_node_is_set(current)
    THEN [nodes EXCEPT ![NodeIndex(current)].decisions = new_decisions]
    ELSE nodes

CurrentDecisions(current) ==
    IF get_session_node_is_set(current) THEN nodes[NodeIndex(current)].decisions ELSE <<>>

\* LoggingSession.get_session().log_decision(decision)
LogDecision ==
    /\ calls < MaxCalls
    /\ \E decision \in StrDecisions :
        nodes' = LoggedInto(session,
                     log_decision(get_session_node_is_set(session),
                                  CurrentDecisions(session), decision))
    /\ calls' = calls + 1
    /\ UNCHANGED <<session, frames, raised, logIdle>>
    /\ UNCHANGED <<alignVars, logVars, normVars>>

\* LoggingSession.get_session().log_column_alignment_op(column_name, operation)
LogColumnAlignmentOp ==
    /\ calls < MaxCalls
    /\ \E column_name \in LoggedColumns, operation \in LoggedOperations :
        nodes' = LoggedInto(session,
                     log_column_alignment_op(get_session_node_is_set(session),
                                             CurrentDecisions(session),
                                             column_name, operation))
    /\ calls' = calls + 1
    /\ UNCHANGED <<session, frames, raised, logIdle>>
    /\ UNCHANGED <<alignVars, logVars, normVars>>

NextLog ==
    \/ EnterNested
    \/ ExitNested
    \/ LogDecision
    \/ LogColumnAlignmentOp

SpecLog == InitLog /\ [][NextLog]_vars

-----------------------------------------------------------------------------
(* Claims about the Decision Log (checked under SpecLog)                   *)

IsPrefixOf(s, t) == Len(s) <= Len(t) /\ \A i \in 1..Len(s) : t[i] = s[i]

\* the Decision is kept: same type; same content, or for a column-aligned
\* Decision the same column with every operation in its position
DecisionKept(old, new) ==
    /\ new.type = old.type
    /\ IF old.type = COLUMN_ALIGNED
       THEN /\ new.column_name = old.column_name
            /\ IsPrefixOf(old.operations, new.operations)
       ELSE new = old

\* C25: the Decision Log of a node is append-only: whatever is logged, every
\* Decision recorded before is still there, with its type, in its position, and
\* every operation recorded inside a column-aligned Decision is still there in
\* its position.
C25_DecisionLogAppendOnly ==
    [][\A k \in 1..Len(nodes) :
          /\ k <= Len(nodes')
          /\ nodes'[k].id = nodes[k].id
          /\ Len(nodes[k].decisions) <= Len(nodes'[k].decisions)
          /\ \A i \in 1..Len(nodes[k].decisions) :
                DecisionKept(nodes[k].decisions[i], nodes'[k].decisions[i])]_vars

\* a node holds a column-aligned Decision that took a second operation, and after
\* it a Decision with a str content
C25_Witness ==
    \E k \in 1..Len(nodes) :
        /\ Len(nodes[k].decisions) = 2
        /\ nodes[k].decisions[1].type = COLUMN_ALIGNED
        /\ Len(nodes[k].decisions[1].operations) = 2
        /\ nodes[k].decisions[2].type # COLUMN_ALIGNED

\* the column-aligned Decisions a node holds for the column
AlignedDecisions(k, column_name) == AlignedIndexes(nodes[k].decisions, column_name)

\* the operations a node holds for the column, <<>> when it holds no Decision for it
NodeOperations(node, column_name) == OperationsOf(node.decisions, column_name)

\* C30: in every node there is at most one column-aligned Decision per column
\* name: the first operation logged for a column creates the Decision of that
\* column, every later one is appended to the operations of that Decision, in
\* call order, and creates no second Decision.
C30_OneDecisionPerColumn ==
    [][\A k \in 1..Len(nodes') : \A c \in LoggedColumns :
          /\ Cardinality(AlignedIndexes(nodes'[k].decisions, c)) <= 1
          /\ (k <= Len(nodes) /\ NodeOperations(nodes'[k], c) # NodeOperations(nodes[k], c)) =>
                /\ \E operation \in LoggedOperations :
                      NodeOperations(nodes'[k], c) = Append(NodeOperations(nodes[k], c), operation)
                /\ IF AlignedDecisions(k, c) = {}
                   THEN /\ Len(nodes'[k].decisions) = Len(nodes[k].decisions) + 1
                        /\ AlignedIndexes(nodes'[k].decisions, c) = {Len(nodes'[k].decisions)}
                   ELSE /\ Len(nodes'[k].decisions) = Len(nodes[k].decisions)
                        /\ AlignedIndexes(nodes'[k].decisions, c) = AlignedDecisions(k, c)]_vars

\* three operations were logged for one column of a node: one Decision holds them
C30_Witness ==
    \E k \in 1..Len(nodes) : \E c \in LoggedColumns :
        /\ Len(nodes[k].decisions) = 1
        /\ Len(NodeOperations(nodes[k], c)) = 3
        /\ NodeOperations(nodes[k], c)[1] # NodeOperations(nodes[k], c)[2]

\* the innermost active logging_session, none when no session is active
InnermostActive == IF frames = <<>> THEN NoSession ELSE frames[Len(frames)].session

\* C29: the session of logging_session is the current session while its body runs
\* and every exit restores the session that was current at entry; what is logged
\* inside an inner body reaches the inner node only, what is logged after the
\* inner exit reaches the outer node again; with no session active the logging
\* calls change nothing.
C29_AmbientSessionRestored ==
    [][/\ session' = IF frames' = <<>> THEN NoSession ELSE frames'[Len(frames')].session
       /\ Len(frames') > Len(frames) =>
            /\ frames'[Len(frames')].previous_session = session
            /\ SubSeq(frames', 1, Len(frames)) = frames
       /\ Len(frames') < Len(frames) =>
            /\ session' = InnermostActive'
            /\ frames' = SubSeq(frames, 1, Len(frames) - 1)
            /\ \A k \in 1..Len(nodes) : nodes'[k].decisions = nodes[k].decisions
       /\ calls' # calls =>
            /\ session' = session
            /\ \A k \in 1..Len(nodes) :
                 nodes[k].id # InnermostActive => nodes'[k] = nodes[k]
            /\ InnermostActive = NoSession => nodes' = nodes
            /\ InnermostActive # NoSession =>
                 Len(nodes'[NodeIndex(InnermostActive)].decisions) >=
                     Len(nodes[NodeIndex(InnermostActive)].decisions)]_vars

\* a Decision was logged in the outer node, one in the inner node, and after the
\* exit of the inner session another one in the outer node
C29_Witness ==
    /\ Len(nodes) = 2
    /\ Len(frames) = 1
    /\ session = nodes[1].id
    /\ nodes[2].status \in TerminalStatuses
    /\ nodes[1].decisions = <<Decision(FILE_FORMAT_IDENTIFIED, "csv"),
                              Decision(SCHEMA_IDENTIFIED, "GWAS")>>
    /\ nodes[2].decisions = <<Decision(SCHEMA_IDENTIFIED, "GWAS")>>

-----------------------------------------------------------------------------
(* Renames and columns present under their schema name (checked under Spec) *)

\* the source columns recorded as the origin of a rename to schema column c
RenameOrigins(c) ==
    {OperationsOf(decisions, c)[k].original_name :
        k \in {l \in 1..Len(OperationsOf(decisions, c)) :
                  OperationsOf(decisions, c)[l].op = "rename"}}

\* the renames have been applied and the call has not returned
RenamesApplied == pc \in {"infer", "validate"}

\* C26: once the accumulated renames are applied, every schema column for which a
\* rename was recorded is in the working dataframe under its schema name, and no
\* source column is the recorded origin of renames to two schema columns.
C26_RenamedColumnsPresent ==
    (RenamesApplied /\ node_is_set) =>
        /\ \A c \in ColumnNames(schema) :
              RenameOrigins(c) # {} => c \in DfColumns(dataframe)
        /\ \A c, d \in ColumnNames(schema) :
              c # d => RenameOrigins(c) \cap RenameOrigins(d) = {}

\* C27: a schema column whose name is the name of a column of the source
\* dataframe is never put in the missing list, so its values are never replaced
\* by an inferred or default value and the call never fails for it as a missing
\* required column.
C27_PresentColumnNeverMissing ==
    \A c \in ColumnNames(schema) :
        c \in Range(source_columns) =>
            /\ c \notin Range(missing_columns)
            /\ ~HasOp(c, {"inference", "set_value"})

\* C28: log and output agree: the mapping operation recorded for a normalised
\* column holds at most one Mapping per distinct mention, and the id of that
\* Mapping is the id the returned series holds on every row with that mention,
\* in every branch.
C28_LogAndOutputAgree ==
    (LookedUp /\ node_is_set /\ MappingOps # <<>>) =>
        /\ \A i, j \in 1..Len(MappingOps[1].mappings) :
              MappingOps[1].mappings[i].mention = MappingOps[1].mappings[j].mention => i = j
        /\ \A i \in 1..Len(MappingOps[1].mappings) :
              \A r \in 1..Len(series) :
                  series[r] = MappingOps[1].mappings[i].mention =>
                      output[r] = MappingOps[1].mappings[i].id

=============================================================================
